---------------------------- MODULE Spec2Model ----------------------------
(***************************************************************************)
(* A model of the auto-run engine of spec_driven_workflow:                *)
(*   auto_run_models.py  AutoRunOptions, TaskResult, AutoRunResult,        *)
(*                       ExecutionState                                    *)
(*   auto_runner.py      TaskAutoRunner (run_all_tasks, resume_from_task,  *)
(*                       resume_from_saved_state and their helpers)        *)
(*   task_generator.py   parse_tasks_from_markdown                         *)
(*                                                                         *)
(* Representation.  A task id "2.1" is the tuple <<2, 1>> of its dotted    *)
(* components; the empty tuple stands for Python's None where an id is     *)
(* optional.  The tasks document is the sequence of its task lines.  The   *)
(* state file and current_execution_state are sequences of length 0        *)
(* (absent / None) or 1.  Descriptions and console output are left out: no *)
(* operation modelled here branches on them.  time.time() returns Now.     *)
(***************************************************************************)
EXTENDS Integers, Sequences, FiniteSets, TLC

\* ------------------------------------------------------------------ bounds
MaxLines == 3
MaxRuns == 2
MaxRetries == 1
MaxResults == 4
MaxStateTotal == 2
MaxParts == 2
MaxSortLen == 4
MaxTaskLines == 3
MaxChecks == 3
MaxCalls == 4

\* ------------------------------------------------------- values and inputs
NoId == <<>>
None == "None"
\* what time.time() returns
Now == 2
SpecName == "spec"

\* ExecutionMode and TaskStatus members and their .value
ExecutionMode == {"AUTOMATIC", "INTERACTIVE"}
ExecutionModeValue(m) == IF m = "INTERACTIVE" THEN "interactive" ELSE "automatic"
ExecutionModeOf(v) == IF v = "interactive" THEN "INTERACTIVE" ELSE "AUTOMATIC"
ExecutionModeValues == {ExecutionModeValue(m) : m \in ExecutionMode}
TaskStatus == {"SUCCESS", "FAILED", "SKIPPED", "RUNNING", "PENDING"}

\* ids that occur in the documents and selections explored
TaskIds == {<<1>>, <<1, 1>>, <<2>>}

\* a task line of tasks.md: "- [ ] <id>. <description>", possibly indented
\* (a subtask line is indented under its parent)
LineKinds ==
    {[id |-> i, checked |-> FALSE, indented |-> FALSE] : i \in TaskIds}
    \cup {[id |-> <<1, 1>>, checked |-> FALSE, indented |-> TRUE]}

RECURSIVE SeqsUpTo(_, _)
SeqsUpTo(S, n) ==
    IF n = 0 THEN {<<>>}
    ELSE LET shorter == SeqsUpTo(S, n - 1)
         IN shorter \cup {Append(s, x) : s \in {t \in shorter : Len(t) = n - 1}, x \in S}

Documents == SeqsUpTo(LineKinds, MaxLines)

\* a selection string: a word ("all", "*", "", blank) or comma-separated
\* parts.  A part holds `dashes` dashes: none for a single id (start) or an
\* empty part (start = NoId), one for a range start-end, either side of
\* which may be empty (NoId).  A component of an id that is not a number
\* ("x") is written as a negative number.
Part(s, e, dashes) == [start |-> s, end |-> e, dashes |-> dashes]
\* a single id (end = NoId) or a range start-end
Segment(s, e) == Part(s, e, IF e = NoId THEN 0 ELSE 1)
Selection(w, segs) == [word |-> w, segs |-> segs]
Join(ids) == Selection("", [i \in DOMAIN ids |-> Segment(ids[i], NoId)])
\* mutant: the letter case of the selection is kept
LowerAsIs(w) == w

Lower(w) == IF w \in {"ALL", "All", "all"} THEN "all" ELSE w
\* task_selection = None
NoSelection == Selection(None, <<>>)

Selections ==
    { Selection("all", <<>>),
      Join(<<<<2>>, <<1, 1>>>>),
      Selection("", <<Segment(<<1>>, <<2>>)>>) }

\* ------------------------------------------------------------ AutoRunOptions
AutoRunOptions(mode, selection, coe, detailed, resume) ==
    [execution_mode |-> mode,
     task_selection |-> IF selection = NoSelection THEN Selection("all", <<>>)
                        ELSE selection,
     continue_on_error |-> coe,
     show_detailed_progress |-> detailed,
     resume_from_task |-> resume]

\* continue_on_error is read in AUTOMATIC mode only
Modes == {<<"AUTOMATIC", FALSE>>, <<"AUTOMATIC", TRUE>>, <<"INTERACTIVE", FALSE>>}

OptionsInputs ==
    {AutoRunOptions(m[1], s, m[2], TRUE, NoId) : m \in Modes, s \in Selections}

\* the options handed to resume_from_task (it replaces their task_selection)
ResumeOptionsInputs ==
    {AutoRunOptions(m[1], Selection("all", <<>>), m[2], TRUE, NoId) :
        m \in {<<"AUTOMATIC", FALSE>>, <<"INTERACTIVE", FALSE>>}}

\* ---------------------------------------------------------------- TaskResult
TaskResult(id, status) == [task_id |-> id, status |-> status]

\* -------------------------------------------------------------- AutoRunResult
AutoRunResult(total) ==
    [total_tasks |-> total,
     executed_tasks |-> 0,
     successful_tasks |-> 0,
     failed_tasks |-> 0,
     skipped_tasks |-> 0,
     task_results |-> <<>>,
     summary_message |-> ""]

Count(r, status, delta) ==
    [r EXCEPT
        !.successful_tasks = IF status = "SUCCESS" THEN @ + delta ELSE @,
        !.failed_tasks = IF status = "FAILED" THEN @ + delta ELSE @,
        !.skipped_tasks = IF status = "SKIPPED" THEN @ + delta ELSE @]

add_task_result(r, res) ==
    Count([r EXCEPT !.task_results = Append(@, res),
                    !.executed_tasks = @ + 1],
          res.status, 1)

\* mutant: the replaced result's counter is not taken back
update_last_keeps_old_count(r, res) ==
    IF r.task_results = <<>> THEN add_task_result(r, res)
    ELSE Count([r EXCEPT !.task_results[Len(r.task_results)] = res], res.status, 1)

\* mutant: the retry's result is appended instead of replacing the last one
update_last_appends(r, res) == add_task_result(r, res)

update_last_task_result(r, res) ==
    IF r.task_results = <<>> THEN add_task_result(r, res)
    ELSE LET n == Len(r.task_results)
             old == r.task_results[n]
             dropped == Count(r, old.status, -1)
         IN Count([dropped EXCEPT !.task_results[n] = res], res.status, 1)

finalize(r) ==
    [r EXCEPT !.summary_message =
        IF r.failed_tasks = 0 THEN "completed successfully" ELSE "completed with issues"]

\* success_rate as the fraction <<numerator, denominator>>
success_rate(r) ==
    IF r.executed_tasks = 0 THEN <<0, 1>>
    ELSE <<r.successful_tasks, r.executed_tasks>>

\* mutant: a result with failed tasks counts as successful
is_successful_despite_failures(r) == r.executed_tasks > 0

is_successful(r) == r.failed_tasks = 0 /\ r.executed_tasks > 0

\* ------------------------------------------------------------- ExecutionState
\* __post_init__: a last_updated of 0 is replaced by the current time
ExecutionState__post_init__(st) ==
    [st EXCEPT !.last_updated = IF @ = 0 THEN Now ELSE @]

\* the ExecutionState run_all_tasks constructs
ExecutionState(opts, total) ==
    ExecutionState__post_init__(
        [spec_name |-> SpecName,
         start_time |-> Now,
         last_updated |-> Now,
         options |-> opts,
         completed_task_ids |-> <<>>,
         failed_task_ids |-> <<>>,
         skipped_task_ids |-> <<>>,
         current_task_id |-> NoId,
         total_tasks |-> total,
         interruption_reason |-> None])

\* mutant: resumable although every task is completed
is_resumable_when_complete(st) ==
    /\ st.total_tasks > 0
    /\ (st.current_task_id # NoId \/ Len(st.completed_task_ids) > 0)

is_resumable(st) ==
    /\ Len(st.completed_task_ids) < st.total_tasks
    /\ st.total_tasks > 0
    /\ (st.current_task_id # NoId \/ Len(st.completed_task_ids) > 0)

\* mutant: the options are written without their resume_from_task
to_dict_without_resume(st) ==
    [spec_name |-> st.spec_name,
     start_time |-> st.start_time,
     last_updated |-> st.last_updated,
     options |-> [execution_mode |-> ExecutionModeValue(st.options.execution_mode),
                  task_selection |-> st.options.task_selection,
                  continue_on_error |-> st.options.continue_on_error,
                  show_detailed_progress |-> st.options.show_detailed_progress],
     completed_task_ids |-> st.completed_task_ids,
     failed_task_ids |-> st.failed_task_ids,
     skipped_task_ids |-> st.skipped_task_ids,
     current_task_id |-> st.current_task_id,
     total_tasks |-> st.total_tasks,
     interruption_reason |-> st.interruption_reason]

to_dict(st) ==
    [spec_name |-> st.spec_name,
     start_time |-> st.start_time,
     last_updated |-> st.last_updated,
     options |-> [execution_mode |-> ExecutionModeValue(st.options.execution_mode),
                  task_selection |-> st.options.task_selection,
                  continue_on_error |-> st.options.continue_on_error,
                  show_detailed_progress |-> st.options.show_detailed_progress,
                  resume_from_task |-> st.options.resume_from_task],
     completed_task_ids |-> st.completed_task_ids,
     failed_task_ids |-> st.failed_task_ids,
     skipped_task_ids |-> st.skipped_task_ids,
     current_task_id |-> st.current_task_id,
     total_tasks |-> st.total_tasks,
     interruption_reason |-> st.interruption_reason]

\* {}
EmptyDict == [key \in {} |-> key]

\* dict.get(key, default)
Get(d, key, default) == IF key \in DOMAIN d THEN d[key] ELSE default

\* from_dict on a dict that has 'spec_name' and a valid execution_mode value
\* (it raises KeyError or ValueError otherwise)
from_dict(d) ==
    LET options_data == Get(d, "options", EmptyDict)
        opts == AutoRunOptions(
                    ExecutionModeOf(Get(options_data, "execution_mode", "automatic")),
                    Get(options_data, "task_selection", NoSelection),
                    Get(options_data, "continue_on_error", FALSE),
                    Get(options_data, "show_detailed_progress", TRUE),
                    Get(options_data, "resume_from_task", NoId))
    IN ExecutionState__post_init__(
        [spec_name |-> d.spec_name,
         start_time |-> Get(d, "start_time", Now),
         last_updated |-> Get(d, "last_updated", Now),
         options |-> opts,
         completed_task_ids |-> Get(d, "completed_task_ids", <<>>),
         failed_task_ids |-> Get(d, "failed_task_ids", <<>>),
         skipped_task_ids |-> Get(d, "skipped_task_ids", <<>>),
         current_task_id |-> Get(d, "current_task_id", NoId),
         total_tasks |-> Get(d, "total_tasks", 0),
         interruption_reason |-> Get(d, "interruption_reason", None)])

\* ------------------------------------------------- tasks document (tasks.md)
ParsedTask(id, line) == [id |-> id, line |-> line]

\* the unchecked task lines, in document order; `line` is the line's position
\* and stands for its text (the description), which tells apart two tasks
\* that carry the same id
RECURSIVE ParseFrom(_, _)
ParseFrom(content, i) ==
    IF i > Len(content) THEN <<>>
    ELSE IF content[i].checked THEN ParseFrom(content, i + 1)
    ELSE <<ParsedTask(content[i].id, i)>> \o ParseFrom(content, i + 1)

parse_tasks_from_markdown(content) == ParseFrom(content, 1)

\* the decimal text of a is a prefix of the decimal text of b
RECURSIVE DigitsPrefix(_, _)
DigitsPrefix(a, b) ==
    \/ a = b
    \/ b >= 10 /\ DigitsPrefix(a, b \div 10)

\* the text "x1.x2...xn" is a prefix of the text "y1.y2...ym"
IdTextPrefix(x, y) ==
    /\ Len(x) <= Len(y)
    /\ \A i \in 1..(Len(x) - 1) : x[i] = y[i]
    /\ DigitsPrefix(x[Len(x)], y[Len(x)])

\* re.sub(r'^(-\s*)\[\s*\]\s*(<id>\s*\.?.*?)$', r'\1[x] \2', content, MULTILINE):
\* an unchecked line that starts with "-" in column 0 and whose text after the
\* checkbox starts with the id's text
mark_task_complete_content(content, task_id) ==
    [i \in DOMAIN content |->
        IF /\ ~content[i].checked
           /\ ~content[i].indented
           /\ IdTextPrefix(task_id, content[i].id)
        THEN [content[i] EXCEPT !.checked = TRUE]
        ELSE content[i]]

\* ------------------------------------------------------------ task selection
\* the outcome of an operation that may raise ValueError; the error keeps
\* what the message is built from
NoError == [kind |-> "", invalid |-> <<>>, available |-> {}]
ValueError(kind, invalid, available) ==
    [ok |-> FALSE, value |-> <<>>,
     error |-> [kind |-> kind, invalid |-> invalid, available |-> available]]
Success(v) == [ok |-> TRUE, value |-> v, error |-> NoError]

Ids(tasks) == [i \in DOMAIN tasks |-> tasks[i].id]
Range(s) == {s[i] : i \in DOMAIN s}

\* int(p) succeeds for every component of the id
Numeric(id) == \A i \in DOMAIN id : id[i] >= 0

\* mutant: the parents of the two sides are not compared
range_ignoring_parent(start, end) ==
    IF ~Numeric(start) \/ ~Numeric(end) \/ Len(start) # Len(end)
           \/ start[Len(start)] > end[Len(end)]
    THEN ValueError("Invalid range", <<>>, {})
    ELSE Success([k \in 1..(end[Len(end)] - start[Len(start)] + 1) |->
                    Append(SubSeq(start, 1, Len(start) - 1), start[Len(start)] + k - 1)])

_generate_task_range(start, end) ==
    IF ~Numeric(start) \/ ~Numeric(end) THEN
        ValueError("Non-numeric task IDs in range", <<>>, {})
    ELSE IF Len(start) = 1 /\ Len(end) = 1 THEN
        IF start[1] > end[1] THEN ValueError("Start is greater than end", <<>>, {})
        ELSE Success([k \in 1..(end[1] - start[1] + 1) |-> <<start[1] + k - 1>>])
    ELSE IF Len(start) # Len(end) THEN ValueError("Hierarchy level mismatch", <<>>, {})
    ELSE LET n == Len(start)
             parent == SubSeq(start, 1, n - 1)
         IN IF parent # SubSeq(end, 1, n - 1)
            THEN ValueError("Parent task mismatch", <<>>, {})
            ELSE IF start[n] > end[n]
            THEN ValueError("Start subtask is greater than end subtask", <<>>, {})
            ELSE Success([k \in 1..(end[n] - start[n] + 1) |->
                            Append(parent, start[n] + k - 1)])

\* list(dict.fromkeys(ids)): first occurrences, in order
RECURSIVE Dedup(_)
Dedup(ids) ==
    IF ids = <<>> THEN <<>>
    ELSE LET front == Dedup(SubSeq(ids, 1, Len(ids) - 1))
             last == ids[Len(ids)]
         IN IF last \in Range(front) THEN front ELSE Append(front, last)

\* the loop over the comma-separated parts: the first bad part raises
RECURSIVE ExpandSegments(_)
ExpandSegments(segs) ==
    IF segs = <<>> THEN Success(<<>>)
    ELSE LET seg == Head(segs)
             here ==
                 IF seg.dashes = 0 THEN
                     IF seg.start = NoId THEN Success(<<>>)  \* empty part: skipped
                     ELSE Success(<<seg.start>>)
                 ELSE IF seg.dashes > 1 THEN
                     ValueError("Invalid range format (too many dashes)", <<>>, {})
                 ELSE IF seg.start = NoId \/ seg.end = NoId THEN
                     ValueError("Invalid range format (missing start or end)", <<>>, {})
                 ELSE _generate_task_range(seg.start, seg.end)
         IN IF ~here.ok THEN here
            ELSE LET rest == ExpandSegments(Tail(segs))
                 IN IF rest.ok THEN Success(here.value \o rest.value) ELSE rest

\* reached with a selection that is not empty and not "all" / "*"
_parse_task_selection(selection) ==
    IF selection.segs = <<>> THEN
        \* a blank string
        ValueError("Selection cannot be empty", <<>>, {})
    ELSE LET e == ExpandSegments(selection.segs)
         IN IF e.ok THEN Success(Dedup(e.value)) ELSE e

\* ------------------------------------------------------- hierarchical order
\* float('inf')
Infinity == 999999

\* mutant: a non-numeric id gets the smallest key
task_sort_key_non_numeric_first(id) ==
    IF ~Numeric(id) THEN <<0, 0, 0>>
    ELSE IF Len(id) >= 3 THEN id
    ELSE id \o [k \in 1..(3 - Len(id)) |-> 0]

\* mutant: the key is cut to three components
task_sort_key_three_levels(id) ==
    IF ~Numeric(id) THEN <<Infinity, 0, 0>>
    ELSE IF Len(id) >= 3 THEN SubSeq(id, 1, 3)
    ELSE id \o [k \in 1..(3 - Len(id)) |-> 0]

task_sort_key(id) ==
    IF ~Numeric(id) THEN <<Infinity, 0, 0>>
    ELSE IF Len(id) >= 3 THEN id
    ELSE id \o [k \in 1..(3 - Len(id)) |-> 0]

\* Python's < on tuples of numbers
RECURSIVE TupleLess(_, _)
TupleLess(a, b) ==
    IF b = <<>> THEN FALSE
    ELSE IF a = <<>> THEN TRUE
    ELSE IF a[1] # b[1] THEN a[1] < b[1]
    ELSE TupleLess(Tail(a), Tail(b))

\* insertion that keeps equal keys in their original order (sorted is stable)
RECURSIVE InsertByKey(_, _)
InsertByKey(sortedTasks, t) ==
    IF sortedTasks = <<>> THEN <<t>>
    ELSE LET last == sortedTasks[Len(sortedTasks)]
         IN IF TupleLess(task_sort_key(t.id), task_sort_key(last.id))
            THEN Append(InsertByKey(SubSeq(sortedTasks, 1, Len(sortedTasks) - 1), t), last)
            ELSE Append(sortedTasks, t)

\* mutant: the selected tasks keep their document order
keep_document_order(tasks) == tasks

RECURSIVE _sort_tasks_hierarchically(_)
_sort_tasks_hierarchically(tasks) ==
    IF tasks = <<>> THEN <<>>
    ELSE InsertByKey(_sort_tasks_hierarchically(SubSeq(tasks, 1, Len(tasks) - 1)),
                     tasks[Len(tasks)])

\* mutant: the ids of the selection are not validated
NoInvalidIds(selected_task_ids, available_task_ids) == <<>>

\* the ids of the selection that no task carries, in selection order
InvalidIds(selected_task_ids, available_task_ids) ==
    LET invalid(id) == id \notin available_task_ids
    IN SelectSeq(selected_task_ids, invalid)

_filter_tasks(tasks, selection) ==
    IF selection.segs = <<>> /\ (selection.word \in {"", None}
                                   \/ Lower(selection.word) \in {"all", "*"})
    THEN Success(_sort_tasks_hierarchically(tasks))
    ELSE LET parsed == _parse_task_selection(selection)
             available_task_ids == Range(Ids(tasks))
         IN IF ~parsed.ok
            THEN ValueError("Invalid task selection format", <<>>, {})
            ELSE IF InvalidIds(parsed.value, available_task_ids) # <<>>
            THEN ValueError("Task IDs not found",
                            InvalidIds(parsed.value, available_task_ids),
                            available_task_ids)
            ELSE LET chosen(t) == t.id \in Range(parsed.value)
                     filtered == SelectSeq(tasks, chosen)
                 IN IF filtered = <<>>
                    THEN ValueError("No tasks match selection criteria", <<>>, {})
                    ELSE Success(_sort_tasks_hierarchically(filtered))

\* --------------------------------------------------------------------- state
VARIABLES
    doc,        \* tasks.md: the sequence of its task lines
    file,       \* .auto_run_state.json: <<>> when absent, else <<dict>>
    state,      \* self.current_execution_state: <<>> for None, else <<state>>
    pc,         \* position of the call in progress
    options,    \* options of the run_all_tasks call in progress
    selected,   \* selected_tasks
    idx,        \* number of tasks whose loop iteration has ended
    result,     \* the AutoRunResult being built, then returned
    pending,    \* task_result of the task being executed
    retrying,   \* the execution in progress is an interactive retry
    ret,        \* outcome of the last call: "none", "result" or the exception
    entry,      \* entry point and arguments of the call in progress
    started,    \* positions in selected_tasks of the tasks started, in order
    inflight,   \* positions of the tasks whose execution has not returned
    ctrlC,      \* keyboard interruption of the call: "no", "raised" (a
                \* KeyboardInterrupt reached the task loop) or "answered"
                \* (Ctrl+C taken as an answer by the failure prompt)
    retries,    \* retries made in this call
    runs        \* calls made

vars == <<doc, file, state, pc, options, selected, idx, result,
          pending, retrying, ret, entry, started, inflight, ctrlC, retries, runs>>

St == state[1]
Task == selected[idx + 1]
Quiescent == {"idle", "returned", "raised"}

\* `done`: the ids a saved state lists as completed or skipped
Entry(op, parsed, task_id, done) ==
    [op |-> op, parsed |-> parsed, task_id |-> task_id, done |-> done]

NoOptions == AutoRunOptions("AUTOMATIC", Selection("all", <<>>), FALSE, TRUE, NoId)

Init ==
    /\ doc \in Documents
    /\ file = <<>>
    /\ state = <<>>
    /\ pc = "idle"
    /\ options = NoOptions
    /\ selected = <<>>
    /\ idx = 0
    /\ result = AutoRunResult(0)
    /\ pending = TaskResult(NoId, "PENDING")
    /\ retrying = FALSE
    /\ ret = "none"
    /\ entry = Entry("none", <<>>, NoId, {})
    /\ started = <<>>
    /\ inflight = {}
    /\ ctrlC = "no"
    /\ retries = 0
    /\ runs = 0

\* ------------------------------------------------------ execution-state file
_save_execution_state(st) == <<to_dict(st)>>

\* None when the file is absent or from_dict raises KeyError / ValueError
_load_execution_state(f) ==
    IF f = <<>> THEN <<>>
    ELSE IF "spec_name" \notin DOMAIN f[1] THEN <<>>
    ELSE IF Get(Get(f[1], "options", EmptyDict), "execution_mode", "automatic")
                \notin ExecutionModeValues THEN <<>>
    ELSE <<from_dict(f[1])>>

\* the property next_task_id: the task to resume from, NoId for None
next_task_id(st) ==
    IF st.current_task_id # NoId /\ st.current_task_id \notin Range(st.completed_task_ids)
    THEN st.current_task_id
    ELSE NoId

check_for_resumable_execution(f) ==
    LET saved_state == _load_execution_state(f)
    IN IF saved_state # <<>> /\ is_resumable(saved_state[1]) THEN saved_state ELSE <<>>

_clear_execution_state(f) == <<>>

\* list.remove(x) guarded by `x in list`: drops the first occurrence
RECURSIVE RemoveFirst(_, _)
RemoveFirst(list, x) ==
    IF list = <<>> THEN <<>>
    ELSE IF Head(list) = x THEN Tail(list)
    ELSE <<Head(list)>> \o RemoveFirst(Tail(list), x)

\* mutant: the earlier entries of the task are left in the lists
_update_execution_state_without_cleanup(st, task_result) ==
    LET id == task_result.task_id
        listed ==
            [st EXCEPT
                !.completed_task_ids =
                    IF task_result.status = "SUCCESS" THEN Append(@, id) ELSE @,
                !.failed_task_ids =
                    IF task_result.status = "FAILED" THEN Append(@, id) ELSE @,
                !.skipped_task_ids =
                    IF task_result.status = "SKIPPED" THEN Append(@, id) ELSE @]
    IN [listed EXCEPT !.last_updated = Now, !.current_task_id = NoId]

_update_execution_state(st, task_result) ==
    LET id == task_result.task_id
        cleaned == [st EXCEPT !.completed_task_ids = RemoveFirst(@, id),
                              !.failed_task_ids = RemoveFirst(@, id),
                              !.skipped_task_ids = RemoveFirst(@, id)]
        listed ==
            [cleaned EXCEPT
                !.completed_task_ids =
                    IF task_result.status = "SUCCESS" THEN Append(@, id) ELSE @,
                !.failed_task_ids =
                    IF task_result.status = "FAILED" THEN Append(@, id) ELSE @,
                !.skipped_task_ids =
                    IF task_result.status = "SKIPPED" THEN Append(@, id) ELSE @]
    IN [listed EXCEPT !.last_updated = Now, !.current_task_id = NoId]

\* ------------------------------------------------------------- run_all_tasks
\* a call begins: the history of the previous call is forgotten
BeginCall(e) ==
    /\ entry' = e
    /\ runs' = runs + 1
    /\ started' = <<>>
    /\ inflight' = {}
    /\ ctrlC' = "no"
    /\ retries' = 0
    /\ retrying' = FALSE
    /\ pending' = TaskResult(NoId, "PENDING")
    /\ idx' = 0

\* run_all_tasks up to the task loop: load, parse, filter, first state save
run_all_tasks(opts) ==
    LET parsed_tasks == parse_tasks_from_markdown(doc)
        filtered == _filter_tasks(parsed_tasks, opts.task_selection)
    IN /\ options' = opts
       /\ UNCHANGED doc
       /\ IF parsed_tasks = <<>> THEN
              /\ result' = AutoRunResult(0)
              /\ pc' = "returned"
              /\ ret' = "result"
              /\ selected' = <<>>
              /\ UNCHANGED <<state, file>>
          ELSE IF ~filtered.ok THEN
              /\ pc' = "raised"
              /\ ret' = "ValueError"
              /\ selected' = <<>>
              /\ UNCHANGED <<state, file, result>>
          ELSE
              /\ selected' = filtered.value
              /\ state' = <<ExecutionState(opts, Len(filtered.value))>>
              /\ file' = _save_execution_state(state'[1])
              /\ result' = AutoRunResult(Len(filtered.value))
              /\ pc' = "loop"
              /\ ret' = "none"

\* a call of run_all_tasks on a new TaskAutoRunner
RunAllTasks(opts) ==
    /\ pc = "idle"
    /\ runs < MaxRuns
    /\ BeginCall(Entry("run_all_tasks", parse_tasks_from_markdown(doc), NoId, {}))
    /\ run_all_tasks(opts)

\* where the loop goes after the iteration of task idx + 1 has ended
AfterTask(stop) ==
    /\ idx' = idx + 1
    /\ pc' = IF stop \/ idx + 1 = Len(selected) THEN "finish" ELSE "loop"

\* the loop may take its next task: the previous iteration has ended
CanStartTask == pc = "loop"

\* lines 367-372: record the current task, save, call _execute_single_task
StartTask ==
    /\ state' = <<[St EXCEPT !.current_task_id = Task.id]>>
    /\ file' = _save_execution_state(state'[1])
    /\ pc' = "exec"
    /\ pending' = TaskResult(Task.id, "RUNNING")
    /\ retrying' = FALSE
    /\ started' = Append(started, idx + 1)
    /\ inflight' = inflight \cup {idx + 1}

\* mutant: the handler re-raises without recording the interruption
ReraiseOnly ==
    /\ UNCHANGED <<state, file>>
    /\ pc' = "raised"
    /\ ret' = "KeyboardInterrupt"
    /\ inflight' = {}

\* the except KeyboardInterrupt handler of run_all_tasks
HandleKeyboardInterrupt ==
    /\ state' = IF state = <<>> THEN state
                ELSE <<[St EXCEPT !.interruption_reason = "Interrupted by user (Ctrl+C)"]>>
    /\ file' = IF state = <<>> THEN file ELSE _save_execution_state(state'[1])
    /\ pc' = "raised"
    /\ ret' = "KeyboardInterrupt"
    /\ inflight' = {}

\* AUTOMATIC mode: the loop takes the next task
BeginTask ==
    /\ CanStartTask
    /\ options.execution_mode = "AUTOMATIC"
    /\ StartTask
    /\ UNCHANGED <<doc, options, selected, idx, result, ret, entry,
                   ctrlC, retries, runs>>

\* INTERACTIVE mode: _prompt_task_confirmation and what the loop does with it
ConfirmTask(choice) ==
    /\ CanStartTask
    /\ options.execution_mode = "INTERACTIVE"
    /\ CASE choice = "execute" ->
              /\ StartTask
              /\ UNCHANGED <<idx, result, ret, ctrlC>>
         [] choice = "skip" ->
              /\ result' = add_task_result(result, TaskResult(Task.id, "SKIPPED"))
              /\ AfterTask(FALSE)
              /\ UNCHANGED <<state, file, pending, retrying, started, inflight,
                             ret, ctrlC>>
         [] OTHER ->  \* "abort", or Ctrl+C at the prompt: KeyboardInterrupt
              /\ HandleKeyboardInterrupt
              /\ ctrlC' = "raised"
              /\ UNCHANGED <<idx, result, pending, retrying, started>>
    /\ UNCHANGED <<doc, options, selected, entry, retries, runs>>

\* TaskExecutor.execute_task returns inside _execute_single_task
AgentFinishes(success) ==
    /\ pc = "exec"
    /\ IF success
       THEN /\ pending' = [pending EXCEPT !.status = "SUCCESS"]
            /\ pc' = "mark"
            /\ UNCHANGED inflight
       ELSE /\ pending' = [pending EXCEPT !.status = "FAILED"]
            /\ pc' = "record"
            /\ inflight' = inflight \ {idx + 1}
    /\ UNCHANGED <<doc, file, state, options, selected, idx, result,
                   retrying, ret, entry, started, ctrlC, retries, runs>>

\* _mark_task_complete rewrites tasks.md; _execute_single_task returns
MarkTaskComplete ==
    /\ pc = "mark"
    /\ doc' = mark_task_complete_content(doc, pending.task_id)
    /\ pc' = "record"
    /\ inflight' = inflight \ {idx + 1}
    /\ UNCHANGED <<file, state, options, selected, idx, result, pending,
                   retrying, ret, entry, started, ctrlC, retries, runs>>

\* result.add_task_result(task_result) / result.update_last_task_result(retry_result)
RecordResult ==
    /\ pc = "record"
    /\ result' = IF retrying THEN update_last_task_result(result, pending)
                 ELSE add_task_result(result, pending)
    /\ pc' = "update"
    /\ UNCHANGED <<doc, file, state, options, selected, idx, pending,
                   retrying, ret, entry, started, inflight, ctrlC, retries, runs>>

\* mutant: the loop never stops at a failed task
StopsOnFailureNever(opts) == FALSE

\* mutant: continue_on_error is not consulted
StopsOnFailureAlways(opts) == opts.execution_mode = "AUTOMATIC"

\* the loop stops at a failed task: AUTOMATIC mode without continue_on_error
StopsOnFailure(opts) ==
    opts.execution_mode = "AUTOMATIC" /\ ~opts.continue_on_error

\* await self._update_execution_state(...), then the branch on the status
UpdateState ==
    /\ pc = "update"
    /\ state' = <<_update_execution_state(St, pending)>>
    /\ file' = _save_execution_state(state'[1])
    /\ IF pending.status = "FAILED" /\ options.execution_mode = "INTERACTIVE"
       THEN pc' = "failprompt" /\ UNCHANGED idx
       ELSE AfterTask(pending.status = "FAILED" /\ StopsOnFailure(options))
    /\ UNCHANGED <<doc, options, selected, result, pending, retrying,
                   ret, entry, started, inflight, ctrlC, retries, runs>>

\* _prompt_failure_action and what the loop does with the answer; Ctrl+C is
\* answered "abort" when the inquirer prompt is in use (INQUIRER_AVAILABLE)
\* and raised as KeyboardInterrupt by input() otherwise
FailureAction(action, inquirer) ==
    /\ pc = "failprompt"
    /\ CASE action = "retry" ->
              /\ retries < MaxRetries
              /\ retries' = retries + 1
              /\ retrying' = TRUE
              /\ pending' = TaskResult(Task.id, "RUNNING")
              /\ inflight' = inflight \cup {idx + 1}
              /\ pc' = "exec"
              /\ UNCHANGED <<state, file, idx, ret, ctrlC>>
         [] action = "skip" ->
              /\ AfterTask(FALSE)
              /\ UNCHANGED <<state, file, pending, retrying, inflight, ret, ctrlC,
                             retries>>
         [] action = "abort" \/ (action = "ctrl_c" /\ inquirer) ->
              /\ pc' = "returned"
              /\ ret' = "result"
              /\ ctrlC' = IF action = "ctrl_c" THEN "answered" ELSE ctrlC
              /\ UNCHANGED <<state, file, idx, pending, retrying, inflight, retries>>
         [] OTHER ->  \* Ctrl+C at input(): KeyboardInterrupt
              /\ HandleKeyboardInterrupt
              /\ ctrlC' = "raised"
              /\ UNCHANGED <<idx, pending, retrying, retries>>
    /\ UNCHANGED <<doc, options, selected, result, entry, started, runs>>

\* Ctrl+C while the loop is not waiting at a prompt
KeyboardInterrupt ==
    /\ \/ pc \in {"exec", "mark", "record", "update"}
       \/ pc = "loop" /\ options.execution_mode = "AUTOMATIC"
    /\ HandleKeyboardInterrupt
    /\ ctrlC' = "raised"
    /\ UNCHANGED <<doc, options, selected, idx, result, pending,
                   retrying, entry, started, retries, runs>>

\* lines 428-445: finalize, clear or mark the state file, return
FinishRun ==
    /\ pc = "finish"
    /\ result' = finalize(result)
    /\ IF is_successful(result')
       THEN /\ file' = _clear_execution_state(file)
            /\ UNCHANGED state
       ELSE /\ state' = IF state = <<>> THEN state
                        ELSE <<[St EXCEPT !.interruption_reason =
                                            "Execution stopped due to failures"]>>
            /\ file' = IF state = <<>> THEN file ELSE _save_execution_state(state'[1])
    /\ pc' = "returned"
    /\ ret' = "result"
    /\ UNCHANGED <<doc, options, selected, idx, pending, retrying,
                   entry, started, inflight, ctrlC, retries, runs>>

\* ------------------------------------------------------------------ resume
\* a call that ends before run_all_tasks is reached
EndCall(outcome) ==
    /\ pc' = IF outcome = "result" THEN "returned" ELSE "raised"
    /\ ret' = outcome
    /\ selected' = <<>>
    /\ UNCHANGED <<doc, options, state>>

FirstIndex(tasks, id) == CHOOSE i \in DOMAIN tasks :
    tasks[i].id = id /\ \A j \in 1..(i - 1) : tasks[j].id # id

resume_from_task(task_id, opts) ==
    LET parsed_tasks == parse_tasks_from_markdown(doc)
    IN IF task_id \notin Range(Ids(parsed_tasks)) THEN
           /\ EndCall("ValueError")
           /\ UNCHANGED <<file, result>>
       ELSE LET resume_index == FirstIndex(parsed_tasks, task_id)
                remaining_task_ids ==
                    Ids(SubSeq(parsed_tasks, resume_index, Len(parsed_tasks)))
            IN run_all_tasks(AutoRunOptions(opts.execution_mode,
                                            Join(remaining_task_ids),
                                            opts.continue_on_error,
                                            opts.show_detailed_progress,
                                            task_id))

\* a call of resume_from_task on a new TaskAutoRunner
ResumeFromTask(task_id, opts) ==
    /\ pc = "idle"
    /\ runs < MaxRuns
    /\ BeginCall(Entry("resume_from_task", parse_tasks_from_markdown(doc), task_id, {}))
    /\ resume_from_task(task_id, opts)

AllAlreadyCompleted(saved_state, parsed_tasks) ==
    [AutoRunResult(Len(parsed_tasks)) EXCEPT
        !.executed_tasks = Len(saved_state.completed_task_ids),
        !.successful_tasks = Len(saved_state.completed_task_ids),
        !.summary_message = "All tasks were already completed"]

\* mutant: the skipped tasks are not taken out of the remaining ones
completed_only(saved_state) == Range(saved_state.completed_task_ids)

completed_and_skipped(saved_state) ==
    Range(saved_state.completed_task_ids \o saved_state.skipped_task_ids)

resume_from_saved_state(saved_state) ==
    LET parsed_tasks == parse_tasks_from_markdown(doc)
        todo(t) == t.id \notin completed_and_skipped(saved_state)
        remaining_tasks == SelectSeq(parsed_tasks, todo)
    IN IF remaining_tasks = <<>> THEN
           /\ file' = _clear_execution_state(file)
           /\ result' = AllAlreadyCompleted(saved_state, parsed_tasks)
           /\ EndCall("result")
       ELSE run_all_tasks(AutoRunOptions(saved_state.options.execution_mode,
                                         Join(Ids(remaining_tasks)),
                                         saved_state.options.continue_on_error,
                                         saved_state.options.show_detailed_progress,
                                         remaining_tasks[1].id))

\* saved states a caller constructs, besides the one the state file holds
SavedStateInputs ==
    {[ExecutionState(AutoRunOptions(m[1], Selection("all", <<>>), m[2], TRUE, NoId), 2)
        EXCEPT !.completed_task_ids = c, !.skipped_task_ids = s] :
        m \in {<<"AUTOMATIC", TRUE>>},
        c \in {<<>>, <<<<1>>>>},
        s \in {<<>>, <<<<2>>>>}}

\* resume_from_saved_state with the state check_for_resumable_execution would
\* load from the file a previous call left, or with a constructed one
ResumeFromSavedState(saved_state) ==
    /\ runs < MaxRuns
    /\ \/ pc = "idle" /\ saved_state \in SavedStateInputs
       \/ pc \in {"returned", "raised"} /\ <<saved_state>> = _load_execution_state(file)
    /\ BeginCall(Entry("resume_from_saved_state", parse_tasks_from_markdown(doc), NoId,
                       Range(saved_state.completed_task_ids)
                           \cup Range(saved_state.skipped_task_ids)))
    /\ resume_from_saved_state(saved_state)

SavedStates == SavedStateInputs \cup Range(_load_execution_state(file))

Next ==
    \/ \E opts \in OptionsInputs : RunAllTasks(opts)
    \/ \E task_id \in TaskIds, opts \in ResumeOptionsInputs : ResumeFromTask(task_id, opts)
    \/ \E saved_state \in SavedStates : ResumeFromSavedState(saved_state)
    \/ BeginTask
    \/ \E choice \in {"execute", "skip", "abort", "ctrl_c"} : ConfirmTask(choice)
    \/ \E success \in BOOLEAN : AgentFinishes(success)
    \/ MarkTaskComplete
    \/ RecordResult
    \/ UpdateState
    \/ \E action \in {"retry", "skip", "abort", "ctrl_c"}, inquirer \in BOOLEAN :
          FailureAction(action, inquirer)
    \/ KeyboardInterrupt
    \/ FinishRun

Spec == Init /\ [][Next]_vars

\* ------------------------------------------- AutoRunResult taken on its own
\* any sequence of add_task_result / update_last_task_result calls on a new
\* AutoRunResult, with results of status SUCCESS, FAILED or SKIPPED
FinalStatus == {"SUCCESS", "FAILED", "SKIPPED"}

InitResult ==
    /\ doc = <<>>
    /\ file = <<>>
    /\ state = <<>>
    /\ pc = "idle"
    /\ options = NoOptions
    /\ selected = <<>>
    /\ idx = 0
    /\ result \in {AutoRunResult(total) : total \in 0..MaxResults}
    /\ pending = TaskResult(NoId, "PENDING")
    /\ retrying = FALSE
    /\ ret = "none"
    /\ entry = Entry("none", <<>>, NoId, {})
    /\ started = <<>>
    /\ inflight = {}
    /\ ctrlC = "no"
    /\ retries = 0
    /\ runs = 0

AddTaskResult(res) ==
    /\ Len(result.task_results) < MaxResults
    /\ result' = add_task_result(result, res)
    /\ UNCHANGED <<doc, file, state, pc, options, selected, idx, pending, retrying,
                   ret, entry, started, inflight, ctrlC, retries, runs>>

UpdateLastTaskResult(res) ==
    /\ Len(result.task_results) < MaxResults
    /\ result' = update_last_task_result(result, res)
    /\ UNCHANGED <<doc, file, state, pc, options, selected, idx, pending, retrying,
                   ret, entry, started, inflight, ctrlC, retries, runs>>

NextResult ==
    \/ \E status \in FinalStatus : AddTaskResult(TaskResult(<<1>>, status))
    \/ \E status \in FinalStatus : UpdateLastTaskResult(TaskResult(<<1>>, status))

SpecResult == InitResult /\ [][NextResult]_vars

\* --------------------------------------- ExecutionState and its state file
\* an ExecutionState is constructed, saved, and the file, possibly damaged or
\* removed in between, is loaded again
StateOptionsInputs ==
    { NoOptions,
      AutoRunOptions("INTERACTIVE", Join(<<<<2>>, <<1, 1>>>>), TRUE, FALSE, <<1>>) }

StateInputs ==
    {ExecutionState__post_init__(
        [spec_name |-> SpecName,
         start_time |-> st,
         last_updated |-> lu,
         options |-> o,
         completed_task_ids |-> c,
         failed_task_ids |-> f,
         skipped_task_ids |-> k,
         current_task_id |-> cur,
         total_tasks |-> total,
         interruption_reason |-> reason]) :
        st \in {0, 1}, lu \in {0, 3}, o \in StateOptionsInputs,
        c \in {<<>>, <<<<1>>>>, <<<<2>>, <<1>>>>},
        f \in {<<>>, <<<<2>>>>},
        k \in {<<>>, <<<<1, 1>>>>},
        cur \in {NoId, <<2>>},
        total \in 0..MaxStateTotal,
        reason \in {None, "Interrupted by user (Ctrl+C)"}}

InitState ==
    /\ doc = <<>>
    /\ file = <<>>
    /\ state \in {<<st>> : st \in StateInputs}
    /\ pc = "idle"
    /\ options = NoOptions
    /\ selected = <<>>
    /\ idx = 0
    /\ result = AutoRunResult(0)
    /\ pending = TaskResult(NoId, "PENDING")
    /\ retrying = FALSE
    /\ ret = "none"
    /\ entry = Entry("none", <<>>, NoId, {})
    /\ started = <<>>
    /\ inflight = {}
    /\ ctrlC = "no"
    /\ retries = 0
    /\ runs = 0

SaveState ==
    /\ pc = "idle"
    /\ file' = _save_execution_state(St)
    /\ pc' = "saved"
    /\ UNCHANGED <<doc, state, options, selected, idx, result, pending, retrying,
                   ret, entry, started, inflight, ctrlC, retries, runs>>

\* the dict without one of its keys
DropKey(d, key) == [k \in DOMAIN d \ {key} |-> d[k]]

\* the file is removed, or edited so that it lacks a key or names no mode
DamageFile(kind) ==
    /\ pc = "saved"
    /\ file' = CASE kind = "removed" -> <<>>
                 [] kind = "no spec_name" -> <<DropKey(file[1], "spec_name")>>
                 [] kind = "no options" -> <<DropKey(file[1], "options")>>
                 [] OTHER -> <<[file[1] EXCEPT !.options.execution_mode = "manual"]>>
    /\ pc' = "damaged"
    /\ UNCHANGED <<doc, state, options, selected, idx, result, pending, retrying,
                   ret, entry, started, inflight, ctrlC, retries, runs>>

\* state[2], when present, is what the call returned
LoadState ==
    /\ pc \in {"saved", "damaged"}
    /\ state' = <<St>> \o _load_execution_state(file)
    /\ pc' = "loaded"
    /\ UNCHANGED <<doc, file, options, selected, idx, result, pending, retrying,
                   ret, entry, started, inflight, ctrlC, retries, runs>>

CheckForResumableExecution ==
    /\ pc \in {"saved", "damaged"}
    /\ state' = <<St>> \o check_for_resumable_execution(file)
    /\ pc' = "checked"
    /\ UNCHANGED <<doc, file, options, selected, idx, result, pending, retrying,
                   ret, entry, started, inflight, ctrlC, retries, runs>>

NextState ==
    \/ SaveState
    \/ \E kind \in {"removed", "no spec_name", "no options", "no mode"} : DamageFile(kind)
    \/ LoadState
    \/ CheckForResumableExecution

SpecState == InitState /\ [][NextState]_vars

\* ------------------------------------------ selection and sorting on their own
\* _filter_tasks, _parse_task_selection and _sort_tasks_hierarchically applied
\* to tasks documents, selection strings and task lists; `result` holds what
\* the call returned or raised, `selected` the task list handed in
PartInputs ==
    { Part(<<1>>, NoId, 0), Part(<<2>>, NoId, 0), Part(<<1, 1>>, NoId, 0),
      Part(<<3>>, NoId, 0),                 \* "3": an id no document carries
      Part(NoId, NoId, 0),                  \* "": an empty part
      Part(<<1>>, <<2>>, 1),                \* "1-2"
      Part(<<2>>, <<1>>, 1),                \* "2-1"
      Part(<<1, 1>>, <<1, 2>>, 1),          \* "1.1-1.2"
      Part(<<2, 1>>, <<2, 3>>, 1),          \* "2.1-2.3"
      Part(<<1, 2>>, <<1, 1>>, 1),          \* "1.2-1.1"
      Part(<<1>>, <<1, 1>>, 1),             \* "1-1.1"
      Part(<<1, 1>>, <<2, 1>>, 1),          \* "1.1-2.1"
      Part(<<-1>>, <<2>>, 1),               \* "x-2"
      Part(<<1>>, NoId, 1),                 \* "1-"
      Part(NoId, <<2>>, 1),                 \* "-2"
      Part(<<1>>, <<2>>, 2) }               \* "1-2-"

SelectionInputs ==
    {Selection(w, <<>>) : w \in {"all", "ALL", "All", "*", "", " "}}
    \cup {Selection("", segs) : segs \in SeqsUpTo(PartInputs, MaxParts) \ {<<>>}}

SortIds == {<<1>>, <<2>>, <<2, 1>>, <<3>>, <<-1>>, <<2, 0, 0, 0>>, <<2, 1, 0, 1>>}

RECURSIVE TaskListsUpTo(_)
TaskListsUpTo(n) ==
    IF n = 0 THEN {<<>>}
    ELSE LET shorter == TaskListsUpTo(n - 1)
         IN shorter \cup {Append(l, ParsedTask(id, n)) :
                             l \in {t \in shorter : Len(t) = n - 1}, id \in SortIds}

InitSelect ==
    /\ doc \in Documents
    /\ file = <<>>
    /\ state = <<>>
    /\ pc = "idle"
    /\ options = NoOptions
    /\ selected = <<>>
    /\ idx = 0
    /\ result = Success(<<>>)
    /\ pending = TaskResult(NoId, "PENDING")
    /\ retrying = FALSE
    /\ ret = "none"
    /\ entry = Entry("none", <<>>, NoId, {})
    /\ started = <<>>
    /\ inflight = {}
    /\ ctrlC = "no"
    /\ retries = 0
    /\ runs = 0

FilterTasks(selection) ==
    /\ pc = "idle"
    /\ entry' = Entry("_filter_tasks", parse_tasks_from_markdown(doc), NoId, {})
    /\ options' = [options EXCEPT !.task_selection = selection]
    /\ selected' = parse_tasks_from_markdown(doc)
    /\ result' = _filter_tasks(selected', selection)
    /\ pc' = "filtered"
    /\ UNCHANGED <<doc, file, state, idx, pending, retrying, ret, started,
                   inflight, ctrlC, retries, runs>>

ParseTaskSelection(selection) ==
    /\ pc = "idle"
    /\ doc = <<>>
    /\ selection.segs # <<>> \/ selection.word = " "
    /\ entry' = Entry("_parse_task_selection", <<>>, NoId, {})
    /\ options' = [options EXCEPT !.task_selection = selection]
    /\ result' = _parse_task_selection(selection)
    /\ pc' = "parsed"
    /\ UNCHANGED <<doc, file, state, selected, idx, pending, retrying, ret, started,
                   inflight, ctrlC, retries, runs>>

SortTasks(tasks) ==
    /\ pc = "idle"
    /\ doc = <<>>
    /\ entry' = Entry("_sort_tasks_hierarchically", <<>>, NoId, {})
    /\ selected' = tasks
    /\ result' = Success(_sort_tasks_hierarchically(tasks))
    /\ pc' = "sorted"
    /\ UNCHANGED <<doc, file, state, options, idx, pending, retrying, ret, started,
                   inflight, ctrlC, retries, runs>>

\* the list a sort returned is sorted again
SortAgain ==
    /\ pc = "sorted"
    /\ selected' = result.value
    /\ result' = Success(_sort_tasks_hierarchically(result.value))
    /\ pc' = "sorted twice"
    /\ UNCHANGED <<doc, file, state, options, idx, pending, retrying, ret, entry,
                   started, inflight, ctrlC, retries, runs>>

NextSelect ==
    \/ \E selection \in SelectionInputs : FilterTasks(selection)
    \/ \E selection \in SelectionInputs : ParseTaskSelection(selection)
    \/ \E tasks \in TaskListsUpTo(MaxSortLen) : SortTasks(tasks)
    \/ SortAgain

SpecSelect == InitSelect /\ [][NextSelect]_vars

\* ------------------------------------------------- dashboard: SpecParser.get_spec
\* a spec directory: each of requirements.md, design.md and tasks.md is <<>>
\* when absent, else <<content>>; of a content only what get_spec reads for
\* the status is kept: the approval marker it holds and its lines.
\* "APPROVED" stands for the literal check-mark emoji + " APPROVED",
\* "Approved:" for the literal bold "Approved:" + check mark
Markers == {"none", "APPROVED", "Approved:"}

Content(marker, lines) == [marker |-> marker, lines |-> lines]

\* a line that task_regex matches, with `indent` leading blanks
TaskLine(indent, checked) == [kind |-> "task", indent |-> indent, checked |-> checked]
\* any other line ("- [X] 1. A", "- [ ] 2.3 A" without the dot, prose)
TextLine == [kind |-> "text", indent |-> 0, checked |-> FALSE]

DashboardLineKinds ==
    {TaskLine(indent, checked) : indent \in {0, 2, 3, 4}, checked \in BOOLEAN}
    \cup {TextLine}

\* the id written on line i; every line carries its own
LineId(i) == <<i>>

DashboardTask(id, completed, parent) ==
    [id |-> id, completed |-> completed, parent |-> parent]

\* while parent_stack and parent_stack[-1]['level'] >= level: parent_stack.pop()
RECURSIVE PopTo(_, _)
PopTo(parent_stack, level) ==
    IF parent_stack # <<>> /\ parent_stack[Len(parent_stack)].level >= level
    THEN PopTo(SubSeq(parent_stack, 1, Len(parent_stack) - 1), level)
    ELSE parent_stack

\* the loop of _parse_tasks from line i on; `nodes` holds every Task created
\* so far, each with the position of its parent in `nodes` (0: top level)
RECURSIVE ParseTaskLines(_, _, _, _)
ParseTaskLines(lines, i, nodes, parent_stack) ==
    IF i > Len(lines) THEN nodes
    ELSE IF lines[i].kind # "task" THEN ParseTaskLines(lines, i + 1, nodes, parent_stack)
    ELSE LET level == lines[i].indent \div 2
             popped == PopTo(parent_stack, level)
             parent == IF popped = <<>> THEN 0 ELSE popped[Len(popped)].task
             current_task == DashboardTask(LineId(i), lines[i].checked, parent)
         IN ParseTaskLines(lines, i + 1, Append(nodes, current_task),
                           Append(popped, [level |-> level, task |-> Len(nodes) + 1]))

_parse_tasks(content) == ParseTaskLines(content.lines, 1, <<>>, <<>>)

\* task.subtasks (parent = 0: the returned top-level list), as positions
subtasks(nodes, parent) ==
    LET child(k) == nodes[k].parent = parent
    IN SelectSeq([k \in DOMAIN nodes |-> k], child)

\* mutant: subtasks are not counted
RECURSIVE count_completed_top_level(_, _)
count_completed_top_level(nodes, tasks) ==
    IF tasks = <<>> THEN 0
    ELSE (IF nodes[Head(tasks)].completed THEN 1 ELSE 0)
         + count_completed_top_level(nodes, Tail(tasks))

RECURSIVE _count_completed_tasks(_, _)
_count_completed_tasks(nodes, tasks) ==
    IF tasks = <<>> THEN 0
    ELSE (IF nodes[Head(tasks)].completed THEN 1 ELSE 0)
         + _count_completed_tasks(nodes, subtasks(nodes, Head(tasks)))
         + _count_completed_tasks(nodes, Tail(tasks))

RECURSIVE _count_total_tasks(_, _)
_count_total_tasks(nodes, tasks) ==
    IF tasks = <<>> THEN 0
    ELSE 1 + _count_total_tasks(nodes, subtasks(nodes, Head(tasks)))
           + _count_total_tasks(nodes, Tail(tasks))

RECURSIVE _find_in_progress_task(_, _)
_find_in_progress_task(nodes, tasks) ==
    IF tasks = <<>> THEN None
    ELSE IF ~nodes[Head(tasks)].completed THEN nodes[Head(tasks)].id
    ELSE LET sub_task_id == _find_in_progress_task(nodes, subtasks(nodes, Head(tasks)))
         IN IF sub_task_id # None THEN sub_task_id
            ELSE _find_in_progress_task(nodes, Tail(tasks))

\* SpecStatus; a document's dict is <<>> for None.  tasks.in_progress is None
\* where the code leaves the key out
SpecStatus(status, requirements, design, tasks) ==
    [status |-> status, requirements |-> requirements, design |-> design, tasks |-> tasks]

get_spec(dir) ==
    LET requirements ==
            IF dir.requirements = <<>> THEN <<>>
            ELSE <<[exists |-> TRUE,
                    approved |-> dir.requirements[1].marker
                                     \in {"APPROVED", "Approved:"}]>>
        status1 == IF requirements = <<>> THEN "not-started"
                   ELSE IF requirements[1].approved THEN "design" ELSE "requirements"
        design ==
            IF dir.design = <<>> THEN <<>>
            ELSE <<[exists |-> TRUE, approved |-> dir.design[1].marker = "APPROVED"]>>
        status2 == IF design # <<>> /\ design[1].approved THEN "tasks" ELSE status1
        task_list == _parse_tasks(dir.tasks[1])
        top == subtasks(task_list, 0)
        completed == _count_completed_tasks(task_list, top)
        total == _count_total_tasks(task_list, top)
        approved == dir.tasks[1].marker = "APPROVED"
        status3 == IF dir.tasks = <<>> \/ ~approved THEN status2
                   ELSE IF completed = 0 THEN "tasks"
                   ELSE IF completed < total THEN "in-progress"
                   ELSE "completed"
        tasks ==
            IF dir.tasks = <<>> THEN <<>>
            ELSE <<[exists |-> TRUE, approved |-> approved, total |-> total,
                    completed |-> completed, task_list |-> task_list,
                    in_progress |-> IF status3 = "in-progress" /\ approved
                                    THEN _find_in_progress_task(task_list, top)
                                    ELSE None]>>
    IN SpecStatus(status3, requirements, design, tasks)

SpecDirectories ==
    [requirements : {<<>>} \cup {<<Content(m, <<>>)>> : m \in Markers},
     design : {<<>>} \cup {<<Content(m, <<>>)>> : m \in Markers},
     tasks : {<<>>} \cup {<<Content(m, lines)>> :
                             m \in {"none", "APPROVED"},
                             lines \in SeqsUpTo(DashboardLineKinds, MaxTaskLines)}]

\* `doc` holds the spec directory, `result` what get_spec returned
InitDashboard ==
    /\ doc \in SpecDirectories
    /\ file = <<>>
    /\ state = <<>>
    /\ pc = "idle"
    /\ options = NoOptions
    /\ selected = <<>>
    /\ idx = 0
    /\ result = <<>>
    /\ pending = TaskResult(NoId, "PENDING")
    /\ retrying = FALSE
    /\ ret = "none"
    /\ entry = Entry("none", <<>>, NoId, {})
    /\ started = <<>>
    /\ inflight = {}
    /\ ctrlC = "no"
    /\ retries = 0
    /\ runs = 0

GetSpec ==
    /\ pc = "idle"
    /\ entry' = Entry("get_spec", <<>>, NoId, {})
    /\ result' = <<get_spec(doc)>>
    /\ pc' = "returned"
    /\ UNCHANGED <<doc, file, state, options, selected, idx, pending, retrying, ret,
                   started, inflight, ctrlC, retries, runs>>

NextDashboard == GetSpec

SpecDashboard == InitDashboard /\ [][NextDashboard]_vars

\* ---------------------------------------- dashboard: SpecWatcher, git changes
\* the outcome of a call that may raise
Raised(exception) == [ok |-> FALSE, value |-> <<>>, exception |-> exception]
Returned(v) == [ok |-> TRUE, value |-> v, exception |-> None]

\* the repository: its branch (None: detached HEAD or no repository) and the
\* hash of its HEAD commit, a sequence of digits (NoCommit: None, no commit)
Branches == {None, "main", "develop", "feature"}
NoCommit == <<>>
CommitHashes == {NoCommit, <<1, 2, 3, 4, 5, 6, 7, 8>>, <<1, 2, 3, 4, 5, 6, 7, 9>>,
                 <<2, 2, 3, 4, 5, 6, 7, 8>>}
Repository(branch, commit) == [branch |-> branch, commit |-> commit]

\* GitUtils.get_current_branch
get_current_branch(repo) == Returned(repo.branch)

\* GitUtils defines no get_current_commit: the attribute lookup raises
get_current_commit(repo) == Raised("AttributeError")

\* commit_hash[:7] if commit_hash else None
ShortCommit(commit_hash) ==
    IF commit_hash = NoCommit THEN NoCommit
    ELSE SubSeq(commit_hash, 1, IF Len(commit_hash) < 7 THEN Len(commit_hash) ELSE 7)

GitChangeEvent(change_type, branch, commit) ==
    [type |-> change_type, branch |-> branch, commit |-> commit]

\* SpecWatcher's git state tracking
GitState(last_branch, last_commit) ==
    [_last_branch |-> last_branch, _last_commit |-> last_commit]

\* _start_git_watcher: the git state it leaves, and whether it watches
_start_git_watcher(watcher, repo) ==
    LET current_branch == get_current_branch(repo)
        commit_hash == get_current_commit(repo)
    IN IF ~current_branch.ok \/ current_branch.value = None
       THEN [watcher |-> watcher, watching |-> FALSE]
       ELSE [watcher |-> IF commit_hash.ok
                         THEN GitState(current_branch.value, ShortCommit(commit_hash.value))
                         ELSE GitState(current_branch.value, watcher._last_commit),
             watching |-> TRUE]

\* check_git_changes: the git state it leaves and the events it emits
check_git_changes(watcher, repo) ==
    LET current_branch == get_current_branch(repo)
        commit_hash == get_current_commit(repo)
        current_commit == ShortCommit(commit_hash.value)
        branch_differs == current_branch.value # watcher._last_branch
        commit_differs == current_commit # watcher._last_commit
    IN IF ~current_branch.ok \/ ~commit_hash.ok
       THEN \* except Exception: the error is printed
            [watcher |-> watcher, emitted |-> <<>>]
       ELSE [watcher |-> GitState(current_branch.value, current_commit),
             emitted |->
                 IF commit_differs
                 THEN <<GitChangeEvent("commit-changed", current_branch.value, current_commit)>>
                 ELSE IF branch_differs
                 THEN <<GitChangeEvent("branch-changed", current_branch.value, current_commit)>>
                 ELSE <<>>]

\* `doc` holds the repository, `state` the watcher's git state, `result` the
\* Git Change events emitted so far, `runs` the checks made
InitGit ==
    /\ doc \in {Repository(b, c) : b \in Branches, c \in CommitHashes}
    /\ file = <<>>
    /\ state = GitState(None, NoCommit)
    /\ pc = "idle"
    /\ options = NoOptions
    /\ selected = <<>>
    /\ idx = 0
    /\ result = <<>>
    /\ pending = TaskResult(NoId, "PENDING")
    /\ retrying = FALSE
    /\ ret = "none"
    /\ entry = Entry("none", <<>>, NoId, {})
    /\ started = <<>>
    /\ inflight = {}
    /\ ctrlC = "no"
    /\ retries = 0
    /\ runs = 0

StartGitWatcher ==
    /\ pc = "idle"
    /\ state' = _start_git_watcher(state, doc).watcher
    /\ pc' = IF _start_git_watcher(state, doc).watching THEN "watching" ELSE "not watching"
    /\ UNCHANGED <<doc, file, options, selected, idx, result, pending, retrying, ret,
                   entry, started, inflight, ctrlC, retries, runs>>

\* a checkout or a commit made in the repository
RepositoryChanges(branch, commit) ==
    /\ doc # Repository(branch, commit)
    /\ doc' = Repository(branch, commit)
    /\ UNCHANGED <<file, state, pc, options, selected, idx, result, pending, retrying,
                   ret, entry, started, inflight, ctrlC, retries, runs>>

CheckGitChanges ==
    /\ pc = "watching"
    /\ runs < MaxChecks
    /\ runs' = runs + 1
    /\ entry' = Entry("check_git_changes", <<>>, NoId, {})
    /\ state' = check_git_changes(state, doc).watcher
    /\ result' = result \o check_git_changes(state, doc).emitted
    /\ UNCHANGED <<doc, file, pc, options, selected, idx, pending, retrying, ret,
                   started, inflight, ctrlC, retries>>

NextGit ==
    \/ StartGitWatcher
    \/ \E b \in Branches, c \in CommitHashes : RepositoryChanges(b, c)
    \/ CheckGitChanges

SpecGit == InitGit /\ [][NextGit]_vars

\* ------------------------------------------ dashboard: SpecWatcher start / stop
\* the observers created so far, in creation order; the watcher holds an
\* observer by its position (NoObserver: None)
NoObserver == 0
Observer(source, running) == [source |-> source, running |-> running]
Sources == {"specs", "git", "steering"}

\* Observer.stop() on the observer at position h; join() returns
StopObserver(observers, h) ==
    [k \in DOMAIN observers |->
        IF k = h THEN [observers[k] EXCEPT !.running = FALSE] ELSE observers[k]]

\* SpecWatcher's fields
SpecWatcher(w, g, st, last_branch, last_commit) ==
    [_watcher |-> w, _git_watcher |-> g, _steering_watcher |-> st,
     _last_branch |-> last_branch, _last_commit |-> last_commit]

\* the project: whether .claude/specs exists, and the repository
Project(specs, repo) == [specs |-> specs, repo |-> repo]

\* `doc` holds the project, `state` the watcher's fields, `result` the
\* observers, `runs` the calls made
InitWatch ==
    /\ doc \in {Project(specs, Repository(b, NoCommit)) :
                    specs \in BOOLEAN, b \in Branches}
    /\ file = <<>>
    /\ state = SpecWatcher(NoObserver, NoObserver, NoObserver, None, NoCommit)
    /\ pc = "idle"
    /\ options = NoOptions
    /\ selected = <<>>
    /\ idx = 0
    /\ result = <<>>
    /\ pending = TaskResult(NoId, "PENDING")
    /\ retrying = FALSE
    /\ ret = "none"
    /\ entry = Entry("none", <<>>, NoId, {})
    /\ started = <<>>
    /\ inflight = {}
    /\ ctrlC = "no"
    /\ retries = 0
    /\ runs = 0

\* SpecWatcher.start: a new observer for specs when the directory exists, for
\* git when _start_git_watcher finds a branch, for steering always
WatcherStart ==
    /\ runs < MaxCalls
    /\ runs' = runs + 1
    /\ entry' = Entry("start", <<>>, NoId, {})
    /\ LET withSpecs == IF doc.specs THEN Append(result, Observer("specs", TRUE))
                        ELSE result
           git == _start_git_watcher(GitState(state._last_branch, state._last_commit),
                                     doc.repo)
           withGit == IF git.watching THEN Append(withSpecs, Observer("git", TRUE))
                      ELSE withSpecs
           withSteering == Append(withGit, Observer("steering", TRUE))
       IN /\ result' = withSteering
          /\ state' = SpecWatcher(IF doc.specs THEN Len(withSpecs) ELSE state._watcher,
                                  IF git.watching THEN Len(withGit) ELSE state._git_watcher,
                                  Len(withSteering),
                                  git.watcher._last_branch, git.watcher._last_commit)
    /\ pc' = "started"
    /\ ret' = "none"
    /\ UNCHANGED <<doc, file, options, selected, idx, pending, retrying, started,
                   inflight, ctrlC, retries>>

\* SpecWatcher.stop: stop and join each observer the watcher holds; the fields
\* keep their values
WatcherStop ==
    /\ runs < MaxCalls
    /\ runs' = runs + 1
    /\ entry' = Entry("stop", <<>>, NoId, {})
    /\ result' = StopObserver(StopObserver(StopObserver(result, state._watcher),
                                           state._git_watcher),
                              state._steering_watcher)
    /\ pc' = "stopped"
    /\ ret' = "none"
    /\ UNCHANGED <<doc, file, state, options, selected, idx, pending, retrying,
                   started, inflight, ctrlC, retries>>

NextWatch ==
    \/ WatcherStart
    \/ WatcherStop

SpecWatch == InitWatch /\ [][NextWatch]_vars

\* ------------------------------------------------------ SpecWorkflowSetup
\* a .claude tree: the directories present (each a sequence of names) and the
\* files present, each with its directory, name and content
Dir(names) == <<".claude">> \o names
FilePath(dir, name) == [dir |-> dir, name |-> name]
FileOf(path, content) == [path |-> path, content |-> content]
Tree(dirs, files) == [dirs |-> dirs, files |-> files]
EmptyTree == Tree({}, {})

claude_dir == Dir(<<>>)
commands_dir == Dir(<<"commands">>)
specs_dir == Dir(<<"specs">>)
templates_dir == Dir(<<"templates">>)
steering_dir == Dir(<<"steering">>)
bugs_dir == Dir(<<"bugs">>)

\* a content: who wrote it and what
ContentOf(origin, text) == [origin |-> origin, text |-> text]

CommandNames ==
    {"spec-create", "spec-requirements", "spec-design", "spec-tasks", "spec-execute",
     "spec-auto-run", "spec-status", "spec-list", "spec-steering-setup",
     "bug-create", "bug-analyze", "bug-fix", "bug-verify", "bug-status"}

TemplateNames ==
    {"requirements-template.md", "design-template.md", "tasks-template.md",
     "bug-report-template.md", "bug-analysis-template.md", "bug-verification-template.md"}

\* f"{command_name}.md" under commands/
CommandFile(command_name) == FilePath(commands_dir, <<command_name, ".md">>)
TemplateFile(template_name) == FilePath(templates_dir, <<template_name>>)
ConfigFile == FilePath(claude_dir, <<"spec-config.json">>)

\* get_<name>_command() / get_<name>_template(): a fixed text per name
get_command(command_name) == ContentOf("package", command_name)
get_template(template_name) == ContentOf("package", template_name)
\* json.dumps(config, indent=2)
config == ContentOf("package", "spec_workflow 1.0.0")

\* open(path, "w") ... write(content)
WriteFiles(tree, written) ==
    Tree(tree.dirs,
         {f \in tree.files : \A w \in written : w.path # f.path} \cup written)

\* mutant: an existing directory is emptied before it is used
setup_directories_afresh(tree) ==
    Tree(tree.dirs \cup {claude_dir, commands_dir, specs_dir, templates_dir,
                         steering_dir, bugs_dir},
         {})

\* directory.mkdir(parents=True, exist_ok=True) for each of the six
setup_directories(tree) ==
    Tree(tree.dirs \cup {claude_dir, commands_dir, specs_dir, templates_dir,
                         steering_dir, bugs_dir},
         tree.files)

create_slash_commands(tree) ==
    WriteFiles(tree, {FileOf(CommandFile(n), get_command(n)) : n \in CommandNames})

create_templates(tree) ==
    WriteFiles(tree, {FileOf(TemplateFile(n), get_template(n)) : n \in TemplateNames})

create_config_file(tree) == WriteFiles(tree, {FileOf(ConfigFile, config)})

run_setup(tree) ==
    create_config_file(create_templates(create_slash_commands(setup_directories(tree))))

\* what the other components and the user have put under .claude
UserFiles ==
    {FileOf(FilePath(Dir(<<"specs", "s">>), <<"tasks", ".md">>), ContentOf("user", "tasks")),
     FileOf(FilePath(Dir(<<"commands", "s">>), <<"task-1", ".md">>), ContentOf("user", "task")),
     FileOf(FilePath(steering_dir, <<"product", ".md">>), ContentOf("user", "product")),
     FileOf(FilePath(bugs_dir, <<"b", ".md">>), ContentOf("user", "bug"))}

\* generated files found in the tree: written by an earlier version or edited
OlderFiles ==
    {FileOf(CommandFile("spec-create"), ContentOf("user", "edited")),
     FileOf(CommandFile("bug-fix"), get_command("bug-fix")),
     FileOf(TemplateFile("tasks-template.md"), ContentOf("user", "edited")),
     FileOf(ConfigFile, ContentOf("user", "edited"))}

\* every prefix of a directory, .claude included
Ancestors(dir) == {SubSeq(dir, 1, k) : k \in 1..Len(dir)}

\* the trees that hold some of these files and some of the six directories
ExistingTrees ==
    {EmptyTree} \cup
    {Tree(UNION {Ancestors(f.path.dir) : f \in files} \cup dirs \cup {claude_dir}, files) :
        files \in SUBSET (UserFiles \cup OlderFiles),
        dirs \in {{}, {specs_dir, bugs_dir}, {commands_dir, templates_dir, steering_dir}}}

\* `doc` holds the tree, `selected` the tree before the first run_setup, `file`
\* the tree after it
InitSetup ==
    /\ doc \in ExistingTrees
    /\ file = EmptyTree
    /\ state = <<>>
    /\ pc = "idle"
    /\ options = NoOptions
    /\ selected = doc
    /\ idx = 0
    /\ result = <<>>
    /\ pending = TaskResult(NoId, "PENDING")
    /\ retrying = FALSE
    /\ ret = "none"
    /\ entry = Entry("none", <<>>, NoId, {})
    /\ started = <<>>
    /\ inflight = {}
    /\ ctrlC = "no"
    /\ retries = 0
    /\ runs = 0

RunSetup ==
    /\ pc = "idle"
    /\ entry' = Entry("run_setup", <<>>, NoId, {})
    /\ doc' = run_setup(doc)
    /\ file' = doc'
    /\ pc' = "set up"
    /\ runs' = runs + 1
    /\ UNCHANGED <<state, options, selected, idx, result, pending, retrying, ret,
                   started, inflight, ctrlC, retries>>

RunSetupAgain ==
    /\ pc = "set up"
    /\ doc' = run_setup(doc)
    /\ pc' = "set up twice"
    /\ runs' = runs + 1
    /\ UNCHANGED <<file, state, options, selected, idx, result, pending, retrying, ret,
                   entry, started, inflight, ctrlC, retries>>

NextSetup ==
    \/ RunSetup
    \/ RunSetupAgain

SpecSetup == InitSetup /\ [][NextSetup]_vars

\* -------------------------------------------------- single-task execution
\* what a stage of the chain does when it is reached: it returns True or
\* False, or raises an Exception with a message
Does(raises, returns, message) == [raises |-> raises, returns |-> returns, message |-> message]
Returns(value) == Does(FALSE, value, "")
Raises(message) == Does(TRUE, FALSE, message)

AgentOutcomes == {Returns(TRUE), Returns(FALSE), Raises("agent error")}
ValidationOutcomes == {Returns(TRUE), Returns(FALSE), Raises("validation error")}
MarkOutcomes == {Returns(TRUE), Raises("tasks.md not writable")}

\* TaskResult with its error_message (None until a failure is recorded)
TaskResultOf(id, status, error_message) ==
    [task_id |-> id, status |-> status, error_message |-> error_message]

mark_started(task_result) == [task_result EXCEPT !.status = "RUNNING"]

mark_completed(task_result, success, error_message) ==
    IF success THEN [task_result EXCEPT !.status = "SUCCESS"]
    ELSE [task_result EXCEPT !.status = "FAILED", !.error_message = error_message]

\* _execute_with_sdk / _execute_with_subprocess inside the try of
\* _execute_task_implementation: an exception becomes False
_execute_task_implementation(agent) ==
    IF agent.raises THEN FALSE ELSE agent.returns

\* the try of validate_task_completion: an exception becomes False
validate_task_completion(validation) ==
    IF validation.raises THEN FALSE ELSE validation.returns

execute_task(agent, validation) ==
    IF _execute_task_implementation(agent)
    THEN validate_task_completion(validation)
    ELSE FALSE

\* the task_result returned and the tasks.md left
_execute_single_task(content, task, agent, validation, mark) ==
    LET task_result == mark_started(TaskResultOf(task.id, "PENDING", None))
        success == execute_task(agent, validation)
    IN IF ~success
       THEN [task_result |-> mark_completed(task_result, FALSE, "Task execution failed"),
             content |-> content]
       ELSE IF mark.raises
       THEN \* _mark_task_complete raised: except Exception as e
            [task_result |-> mark_completed(mark_completed(task_result, TRUE, None),
                                            FALSE, mark.message),
             content |-> content]
       ELSE [task_result |-> mark_completed(task_result, TRUE, None),
             content |-> mark_task_complete_content(content, task.id)]

\* `options` holds what the agent, the validation and the rewrite of tasks.md
\* do in the call, `entry.parsed` the task executed
InitTask ==
    /\ doc \in Documents
    /\ file = <<>>
    /\ state = <<>>
    /\ pc = "idle"
    /\ options = [agent |-> Returns(TRUE), validation |-> Returns(TRUE),
                  mark |-> Returns(TRUE)]
    /\ selected = <<>>
    /\ idx = 0
    /\ result = <<>>
    /\ pending = TaskResultOf(NoId, "PENDING", None)
    /\ retrying = FALSE
    /\ ret = "none"
    /\ entry = Entry("none", <<>>, NoId, {})
    /\ started = <<>>
    /\ inflight = {}
    /\ ctrlC = "no"
    /\ retries = 0
    /\ runs = 0

ExecuteSingleTask(task, agent, validation, mark) ==
    /\ pc = "idle"
    /\ entry' = Entry("_execute_single_task", <<task>>, task.id, {})
    /\ options' = [agent |-> agent, validation |-> validation, mark |-> mark]
    /\ pending' = _execute_single_task(doc, task, agent, validation, mark).task_result
    /\ doc' = _execute_single_task(doc, task, agent, validation, mark).content
    /\ pc' = "returned"
    /\ ret' = "result"
    /\ UNCHANGED <<file, state, selected, idx, result, retrying, started, inflight,
                   ctrlC, retries, runs>>

NextTask ==
    \E task \in Range(parse_tasks_from_markdown(doc)),
       agent \in AgentOutcomes, validation \in ValidationOutcomes, mark \in MarkOutcomes :
        ExecuteSingleTask(task, agent, validation, mark)

SpecTask == InitTask /\ [][NextTask]_vars

\* --------------------------------------------- the two agent strategies
\* TaskExecutor._execute_with_sdk and TaskExecutor._execute_with_subprocess as
\* functions of what the agent did: the messages of the session (or the
\* outcome of the monitored process) and the snapshots of the project files
\* taken before and after.

MaxMessages == 2
MaxFileStates == 2

ProjectFiles == {"a.py", "b.py"}

\* a path that is not in a snapshot
NoFile == 0

\* the (modification time, size) pairs a file of a snapshot can have
FileStates == 1..MaxFileStates

\* _get_project_file_states: path -> (st_mtime, st_size), for the paths present
Snapshots == [ProjectFiles -> {NoFile} \cup FileStates]

PathsOf(snapshot) == {f \in ProjectFiles : snapshot[f] # NoFile}

\* a message of the session: tool_name is "none" where the message has no
\* such attribute
Message(type, tool_name) == [type |-> type, tool_name |-> tool_name]

ToolNames == {"Read", "Write", "Edit", "MultiEdit", "NotebookEdit"}

FileTools == {"Write", "Edit", "MultiEdit", "NotebookEdit"}

Messages ==
    {Message(type, "none") : type \in {"text", "thinking", "error", "tool_use"}}
    \cup {Message("tool_use", tool_name) : tool_name \in ToolNames}

\* what query(prompt, options) yields, and whether the iteration raises at
\* its end
Session(messages, raises) == [messages |-> messages, raises |-> raises]

Sessions ==
    {Session(messages, raises) :
        messages \in UNION {[1..n -> Messages] : n \in 0..MaxMessages},
        raises \in BOOLEAN}

\* a file that is new, or present in both snapshots with another
\* modification time or size; a path of files_before that is missing from
\* files_after is not looked at
_verify_file_changes(files_before, files_after) ==
    \/ \E file_path \in PathsOf(files_after) : file_path \notin PathsOf(files_before)
    \/ \E file_path \in PathsOf(files_before) :
          /\ file_path \in PathsOf(files_after)
          /\ files_before[file_path] # files_after[file_path]

manual_execution_succeeds == TRUE

\* the fallback is not implemented: it prints that and returns False
_attempt_manual_task_execution == FALSE

file_operations_detected(messages) ==
    \E i \in 1..Len(messages) :
        /\ messages[i].type = "tool_use"
        /\ messages[i].tool_name \in FileTools

_execute_with_sdk(session, files_before, files_after) ==
    IF \E i \in 1..Len(session.messages) : session.messages[i].type = "error"
    THEN FALSE
    ELSE IF session.raises
    THEN FALSE
    ELSE IF session.messages = <<>>
    THEN FALSE
    ELSE IF _verify_file_changes(files_before, files_after)
    THEN TRUE
    ELSE IF file_operations_detected(session.messages)
    THEN _attempt_manual_task_execution
    ELSE TRUE

\* the raw process: whether find_claude_executable found the agent, and the
\* success that _monitor_claude_process returned
ProcessRun(executable, success) == [executable |-> executable, success |-> success]

ProcessRuns == {ProcessRun(executable, success) : executable, success \in BOOLEAN}

_execute_with_subprocess(run, files_before, files_after) ==
    IF ~run.executable
    THEN FALSE
    ELSE IF run.success
    THEN _verify_file_changes(files_before, files_after)
    ELSE FALSE

\* `doc` holds the session of the structured client, `options` the run of the
\* raw process, `state` the two snapshots, `result` what the strategy returned
InitAgent ==
    /\ doc = Session(<<>>, FALSE)
    /\ file = <<>>
    /\ state = [files_before |-> [f \in ProjectFiles |-> NoFile],
                files_after |-> [f \in ProjectFiles |-> NoFile]]
    /\ pc = "idle"
    /\ options = ProcessRun(FALSE, FALSE)
    /\ selected = <<>>
    /\ idx = 0
    /\ result = FALSE
    /\ pending = <<>>
    /\ retrying = FALSE
    /\ ret = "none"
    /\ entry = Entry("none", <<>>, NoId, {})
    /\ started = <<>>
    /\ inflight = {}
    /\ ctrlC = "no"
    /\ retries = 0
    /\ runs = 0

ExecuteWithSdk(session, run, files_before, files_after) ==
    /\ pc = "idle"
    /\ doc' = session
    /\ options' = run
    /\ state' = [files_before |-> files_before, files_after |-> files_after]
    /\ result' = _execute_with_sdk(session, files_before, files_after)
    /\ pc' = "_execute_with_sdk"
    /\ UNCHANGED <<file, selected, idx, pending, retrying, ret, entry, started,
                   inflight, ctrlC, retries, runs>>

ExecuteWithSubprocess(session, run, files_before, files_after) ==
    /\ pc = "idle"
    /\ doc' = session
    /\ options' = run
    /\ state' = [files_before |-> files_before, files_after |-> files_after]
    /\ result' = _execute_with_subprocess(run, files_before, files_after)
    /\ pc' = "_execute_with_subprocess"
    /\ UNCHANGED <<file, selected, idx, pending, retrying, ret, entry, started,
                   inflight, ctrlC, retries, runs>>

\* one call of a strategy; nothing follows it
NextAgent ==
    /\ pc = "idle"
    /\ \E session \in Sessions, run \in ProcessRuns,
          files_before \in Snapshots, files_after \in Snapshots :
           \/ ExecuteWithSdk(session, run, files_before, files_after)
           \/ ExecuteWithSubprocess(session, run, files_before, files_after)

SpecAgent == InitAgent /\ [][NextAgent]_vars

\* ------------------------------------------- monitoring the agent process
\* TaskExecutor._monitor_claude_process and TaskExecutor._terminate_process.
\* One action is one pass of the while loop, or one step of the termination.
\* The clock counts whole seconds: a pass takes the pacing delay, counted as
\* one second, and one second more for each read that times out.

MAX_EXECUTION_TIME == 300
INACTIVITY_TIMEOUT == 30

\* timeout of a read of stdout or stderr, in seconds
READ_TIMEOUT == 1

\* timeouts of the two waits of _terminate_process, in seconds
TERMINATE_TIMEOUT == 5
KILL_TIMEOUT == 2

\* asyncio.sleep(0.5), counted as a second of the clock
PACING == 1

\* the process: returncode is read only when it has exited
Process(exited, returncode) == [exited |-> exited, returncode |-> returncode]

RunningProcess == Process(FALSE, 0)

\* the exit codes of a process that ends by itself
ExitCodes == {0, 1}

\* what the process does while the monitor awaits: it goes on, or it ends
\* with an exit code
StillRunning == -1
Exits == {StillRunning} \cup ExitCodes

\* what a chunk read from stdout holds of the COMPLETION_PATTERNS and of the
\* ERROR_PATTERNS: nothing, a pattern as listed, a pattern in another case,
\* or (completion) the beginning or the end of a pattern that the reads cut
\* in two
Chunk(completion, error) == [completion |-> completion, error |-> error]

Chunks ==
    {Chunk(completion, error) :
        completion \in {"no", "as listed", "other case"},
        error \in {"no", "as listed", "other case"}}
    \cup {Chunk("start", "no"), Chunk("end", "no")}

\* pattern.lower() in new_output.lower()
InLower(held) == held \in {"as listed", "other case"}

\* a read of a stream: a chunk, b'' at the end of the stream, or the timeout
NoChunk == Chunk("no", "no")
Read(outcome, chunk) == [outcome |-> outcome, chunk |-> chunk]

StdoutReads ==
    {Read("chunk", chunk) : chunk \in Chunks}
    \cup {Read("EOF", NoChunk), Read("TimeoutError", NoChunk)}

\* the reads of stdout after which the loop goes on
QuietReads ==
    {read \in StdoutReads :
        read.outcome = "chunk" => ~InLower(read.chunk.completion) /\ ~InLower(read.chunk.error)}

PatternChunks == {chunk \in Chunks : InLower(chunk.completion) \/ InLower(chunk.error)}

StderrReads ==
    {Read("chunk", NoChunk), Read("EOF", NoChunk), Read("TimeoutError", NoChunk)}

ReadTime(read) == IF read.outcome = "TimeoutError" THEN READ_TIMEOUT ELSE 0

no_time_passes(out, err) == 0

\* the time of a pass that goes on: the two reads and asyncio.sleep(0.5)
PassTime(out, err) == ReadTime(out) + ReadTime(err) + PACING

\* stdout_output as far as the completion patterns go: "plain" (empty, or
\* no pattern), "partial" (ends with the beginning of a pattern), "phrase"
\* (holds a pattern)
AddOutput(stdout_output, chunk) ==
    IF stdout_output = "phrase" \/ InLower(chunk.completion)
    THEN "phrase"
    ELSE IF stdout_output = "partial" /\ chunk.completion = "end"
    THEN "phrase"
    ELSE IF chunk.completion = "start"
    THEN "partial"
    ELSE "plain"

\* the locals of _monitor_claude_process; start_time is 0. What was read
\* from stderr is not kept: it only becomes the text of the tuple returned
Monitor(clock, last_output_time, stdout_output) ==
    [clock |-> clock, last_output_time |-> last_output_time,
     stdout_output |-> stdout_output]

\* the locals that are still read once the loop is left
AfterLoop(monitor) == Monitor(0, 0, monitor.stdout_output)

\* the tuple returned: success, and the text that stands for stderr_output
\* when nothing was read from stderr
Outcome(success, error) == [success |-> success, error |-> error]

\* a step of _terminate_process: a signal sent, or a wait and how it ended
Signal(name) == [op |-> name, timeout |-> 0, outcome |-> "sent"]
Wait(timeout, outcome) == [op |-> "wait_for", timeout |-> timeout, outcome |-> outcome]

\* `doc` holds the process, `state` the locals of the monitor, `result` the
\* tuple returned, `pending` the reason why the loop ended, `selected` the
\* signals and waits of _terminate_process, `options` the chunk in which a
\* pattern was found
InitMonitor ==
    /\ doc = RunningProcess
    /\ file = <<>>
    /\ state = Monitor(0, 0, "plain")
    /\ pc = "monitoring"
    /\ options = NoChunk
    /\ selected = <<>>
    /\ idx = 0
    /\ result = Outcome(FALSE, "")
    /\ pending = "none"
    /\ retrying = FALSE
    /\ ret = "none"
    /\ entry = Entry("none", <<>>, NoId, {})
    /\ started = <<>>
    /\ inflight = {}
    /\ ctrlC = "no"
    /\ retries = 0
    /\ runs = 0

MonitorUnchanged ==
    UNCHANGED <<file, idx, retrying, ret, entry, started, inflight, ctrlC,
                retries, runs>>

ExecutionTimeExceeded == state.clock > MAX_EXECUTION_TIME

Inactive == state.clock - state.last_output_time > INACTIVITY_TIMEOUT

\* the process may end while the monitor awaits a read or sleeps; the
\* monitor sees it when it next reads process.returncode
ProcessAfter(process, exit) ==
    IF exit = StillRunning THEN process ELSE Process(TRUE, exit)

\* if current_time - start_time > MAX_EXECUTION_TIME; the process may have
\* ended during the pass before
ExecutionTimeout(exit) ==
    /\ pc = "monitoring"
    /\ ExecutionTimeExceeded
    /\ doc' = ProcessAfter(doc, exit)
    /\ pending' = "execution timeout"
    /\ result' = Outcome(FALSE, "Execution timeout after 300 seconds")
    /\ pc' = "_terminate_process"
    /\ state' = AfterLoop(state)
    /\ UNCHANGED <<selected, options>>
    /\ MonitorUnchanged

\* if current_time - last_output_time > INACTIVITY_TIMEOUT, process running
InactivityTimeout ==
    /\ pc = "monitoring"
    /\ ~ExecutionTimeExceeded
    /\ Inactive
    /\ pending' = "inactivity"
    /\ result' = IF state.stdout_output = "phrase"
                 THEN Outcome(TRUE, "")
                 ELSE Outcome(FALSE, "Process terminated due to inactivity")
    /\ pc' = "_terminate_process"
    /\ state' = AfterLoop(state)
    /\ UNCHANGED <<doc, selected, options>>
    /\ MonitorUnchanged

\* the two breaks of the loop, and the return after it: the process ended
\* during the pass before, or before the first pass
NaturalExit(returncode) ==
    /\ pc = "monitoring"
    /\ ~ExecutionTimeExceeded
    /\ doc' = Process(TRUE, returncode)
    /\ pending' = "natural exit"
    /\ result' = IF returncode = 0
                 THEN Outcome(TRUE, "")
                 ELSE Outcome(FALSE, "Process exited with code")
    /\ pc' = "returned"
    /\ state' = AfterLoop(state)
    /\ UNCHANGED <<selected, options>>
    /\ MonitorUnchanged

\* a pass that reads stdout and finds a completion pattern in the chunk
CompletionPattern(chunk, exit) ==
    /\ pc = "monitoring"
    /\ ~ExecutionTimeExceeded /\ ~Inactive
    /\ InLower(chunk.completion)
    /\ state' = AfterLoop([state EXCEPT !.stdout_output = AddOutput(@, chunk)])
    /\ doc' = ProcessAfter(doc, exit)
    /\ pending' = "completion pattern"
    /\ result' = Outcome(TRUE, "")
    /\ pc' = "_terminate_process"
    /\ UNCHANGED selected
    /\ options' = chunk
    /\ MonitorUnchanged

\* a pass that reads stdout and finds an error pattern, and no completion
\* pattern, in the chunk
ErrorPattern(chunk, exit) ==
    /\ pc = "monitoring"
    /\ ~ExecutionTimeExceeded /\ ~Inactive
    /\ ~InLower(chunk.completion)
    /\ InLower(chunk.error)
    /\ state' = AfterLoop([state EXCEPT !.stdout_output = AddOutput(@, chunk)])
    /\ doc' = ProcessAfter(doc, exit)
    /\ pending' = "error pattern"
    /\ result' = Outcome(FALSE, "Error pattern detected in output")
    /\ pc' = "_terminate_process"
    /\ UNCHANGED selected
    /\ options' = chunk
    /\ MonitorUnchanged

\* a pass that reads both streams, finds no pattern and sleeps
ReadOutput(out, err) ==
    /\ pc = "monitoring"
    /\ ~ExecutionTimeExceeded /\ ~Inactive
    /\ out.outcome = "chunk" => ~InLower(out.chunk.completion) /\ ~InLower(out.chunk.error)
    /\ state' = Monitor(state.clock + PassTime(out, err),
                        IF out.outcome = "chunk" \/ err.outcome = "chunk"
                        THEN state.clock ELSE state.last_output_time,
                        IF out.outcome = "chunk"
                        THEN AddOutput(state.stdout_output, out.chunk)
                        ELSE state.stdout_output)
    /\ UNCHANGED <<doc, pc, pending, result, selected, options>>
    /\ MonitorUnchanged

\* except Exception as e, around the reads
ReadRaises(exit) ==
    /\ pc = "monitoring"
    /\ ~ExecutionTimeExceeded /\ ~Inactive
    /\ doc' = ProcessAfter(doc, exit)
    /\ pending' = "exception"
    /\ result' = Outcome(FALSE, "str(e)")
    /\ pc' = "_terminate_process"
    /\ state' = AfterLoop(state)
    /\ UNCHANGED <<selected, options>>
    /\ MonitorUnchanged

terminate_whatever_the_returncode ==
    /\ pc = "_terminate_process"
    /\ pc' = "wait_for terminate"
    /\ selected' = Append(selected, Signal("terminate"))
    /\ UNCHANGED <<doc, state, pending, result, options>>
    /\ MonitorUnchanged

\* _terminate_process: if process.returncode is None: process.terminate()
Terminate ==
    /\ pc = "_terminate_process"
    /\ IF doc.exited
       THEN pc' = "returned" /\ UNCHANGED selected
       ELSE pc' = "wait_for terminate" /\ selected' = Append(selected, Signal("terminate"))
    /\ UNCHANGED <<doc, state, pending, result, options>>
    /\ MonitorUnchanged

\* await asyncio.wait_for(process.wait(), timeout=5.0): the process ends in
\* time, or the wait times out and the process is killed
TerminateWait(exits) ==
    /\ pc = "wait_for terminate"
    /\ IF exits
       THEN /\ doc' = Process(TRUE, -15)
            /\ selected' = Append(selected, Wait(TERMINATE_TIMEOUT, "exited"))
            /\ pc' = "returned"
       ELSE /\ doc' = doc
            /\ selected' = selected \o <<Wait(TERMINATE_TIMEOUT, "TimeoutError"),
                                         Signal("kill")>>
            /\ pc' = "wait_for kill"
    /\ UNCHANGED <<state, pending, result, options>>
    /\ MonitorUnchanged

\* await asyncio.wait_for(process.wait(), timeout=2.0), and the return
KillWait(exits) ==
    /\ pc = "wait_for kill"
    /\ IF exits
       THEN /\ doc' = Process(TRUE, -9)
            /\ selected' = Append(selected, Wait(KILL_TIMEOUT, "exited"))
       ELSE /\ doc' = doc
            /\ selected' = Append(selected, Wait(KILL_TIMEOUT, "TimeoutError"))
    /\ pc' = "returned"
    /\ UNCHANGED <<state, pending, result, options>>
    /\ MonitorUnchanged

MonitorStep ==
    \/ \E exit \in Exits : ExecutionTimeout(exit)
    \/ InactivityTimeout
    \/ \E returncode \in ExitCodes : NaturalExit(returncode)
    \/ \E chunk \in PatternChunks, exit \in Exits :
          \/ CompletionPattern(chunk, exit)
          \/ ErrorPattern(chunk, exit)
    \/ \E out \in QuietReads, err \in StderrReads : ReadOutput(out, err)
    \/ \E exit \in Exits : ReadRaises(exit)
    \/ Terminate
    \/ \E exits \in BOOLEAN : TerminateWait(exits)
    \/ \E exits \in BOOLEAN : KillWait(exits)

NextMonitor == MonitorStep

SpecMonitor == InitMonitor /\ [][NextMonitor]_vars

\* the event loop runs the coroutine of the monitor whenever it can go on:
\* every read, sleep and wait of it has a timeout
SpecMonitorFair == SpecMonitor /\ WF_vars(NextMonitor)

\* ------------------------------------------------------------------- claims
Automatic == options.execution_mode = "AUTOMATIC"
Interactive == options.execution_mode = "INTERACTIVE"
\* the call in progress, or the last one, reached the task loop
ReachedLoop == selected # <<>>
\* run_all_tasks returned after its task loop ended (finalize has run)
LoopEnded ==
    /\ pc = "returned"
    /\ ReachedLoop
    /\ result.summary_message \in {"completed successfully", "completed with issues"}
FailedAt(i) == i \in DOMAIN result.task_results /\ result.task_results[i].status = "FAILED"
OneTo(n) == [i \in 1..n |-> i]
NumberOf(status) ==
    Cardinality({i \in DOMAIN result.task_results : result.task_results[i].status = status})

\* C1: in AUTOMATIC mode without continue_on_error, from the moment a result is
\* FAILED no later task is started: the result holds the results of the tasks
\* up to and including the first failed one, in hierarchical order, so that
\* executed_tasks is that task's position, total_tasks is the size of the
\* selected set and the result is not fully successful.
C1_StopAtFirstFailure ==
    (Automatic /\ ~options.continue_on_error /\ ReachedLoop) =>
        \A k \in DOMAIN result.task_results :
            FailedAt(k) =>
                /\ Len(result.task_results) = k
                /\ \A i \in 1..(k - 1) : result.task_results[i].status = "SUCCESS"
                /\ \A i \in 1..k : result.task_results[i].task_id = selected[i].id
                /\ started = OneTo(k)
                /\ inflight = {}
                /\ pc \in {"update", "finish", "returned", "raised"}
                /\ result.executed_tasks = k
                /\ result.total_tasks = Len(selected)
                /\ ~(result.failed_tasks = 0 /\ result.executed_tasks > 0)

C1_Witness ==
    /\ LoopEnded
    /\ Automatic /\ ~options.continue_on_error
    /\ Len(selected) = 3
    /\ result.task_results[1].status = "SUCCESS"
    /\ FailedAt(2)
    /\ result.executed_tasks = 2

\* C2: in AUTOMATIC mode with continue_on_error, when run_all_tasks returns
\* every task of the selected set has been executed exactly once, whatever
\* failed before it: executed_tasks = total_tasks = size of the selected set
\* and successful_tasks + failed_tasks = total_tasks.
C2_ContinueOnError ==
    (Automatic /\ options.continue_on_error /\ ReachedLoop) =>
        /\ started = OneTo(Len(started))
        /\ pc = "returned" =>
              /\ started = OneTo(Len(selected))
              /\ \A i \in DOMAIN selected : result.task_results[i].task_id = selected[i].id
              /\ result.executed_tasks = Len(selected)
              /\ result.total_tasks = Len(selected)
              /\ result.successful_tasks + result.failed_tasks = result.total_tasks

C2_Witness ==
    /\ LoopEnded
    /\ Automatic /\ options.continue_on_error
    /\ Len(selected) = 3
    /\ FailedAt(1)
    /\ result.task_results[2].status = "SUCCESS"
    /\ FailedAt(3)

\* C4: after every add_task_result / update_last_task_result call on a new
\* AutoRunResult, executed_tasks = successful_tasks + failed_tasks +
\* skipped_tasks, the counters count the results held, and success_rate is
\* successful_tasks / executed_tasks, 0 when nothing was executed.
C4_ResultCounters ==
    /\ result.executed_tasks =
          result.successful_tasks + result.failed_tasks + result.skipped_tasks
    /\ result.executed_tasks = Len(result.task_results)
    /\ result.successful_tasks = NumberOf("SUCCESS")
    /\ result.failed_tasks = NumberOf("FAILED")
    /\ result.skipped_tasks = NumberOf("SKIPPED")
    /\ success_rate(result) =
          IF Len(result.task_results) = 0 THEN <<0, 1>>
          ELSE <<NumberOf("SUCCESS"), Len(result.task_results)>>

C4_Witness ==
    /\ Len(result.task_results) = 3
    /\ result.task_results[3].status = "SKIPPED"
    /\ result.successful_tasks = 1
    /\ result.failed_tasks = 1
    /\ result.skipped_tasks = 1

\* sort key of the task at position i of selected_tasks
Key(i) == task_sort_key(selected[i].id)

\* position n of selected_tasks has been handled and everything the loop
\* writes for it is written: its result is recorded, a successful task's line
\* is checked in tasks.md, and the state file holds the state in memory, which
\* lists an executed task's id under its status when the task in flight is the
\* next one on its first attempt (a retry of a task that carries the same id
\* moves the id to the list of the retried attempt's status)
Settled(n) ==
    /\ n \notin inflight
    /\ n \in DOMAIN result.task_results
    /\ LET r == result.task_results[n]
       IN /\ r.task_id = selected[n].id
          /\ r.status \in FinalStatus
          /\ r.status = "SUCCESS" => mark_task_complete_content(doc, r.task_id) = doc
          /\ file = <<to_dict(St)>>
          /\ (n = idx /\ ~retrying /\ r.status = "SUCCESS") =>
                 r.task_id \in Range(file[1].completed_task_ids)
          /\ (n = idx /\ ~retrying /\ r.status = "FAILED") =>
                 r.task_id \in Range(file[1].failed_task_ids)

\* at most one task is in flight, and while one is, every earlier position
\* of selected_tasks is settled
OneTaskInFlight ==
    /\ Cardinality(inflight) <= 1
    /\ inflight # {} =>
          /\ inflight = {idx + 1}
          /\ pc \in {"exec", "mark"}
          /\ started # <<>> /\ started[Len(started)] = idx + 1
          /\ file = <<to_dict(St)>>
          /\ \A n \in 1..idx : Settled(n)

ListsHolding(id) ==
    {l \in {"completed", "failed", "skipped"} :
        id \in Range(CASE l = "completed" -> file[1].completed_task_ids
                        [] l = "failed" -> file[1].failed_task_ids
                        [] OTHER -> file[1].skipped_task_ids)}

ListOf(status) ==
    CASE status = "SUCCESS" -> "completed"
      [] status = "FAILED" -> "failed"
      [] OTHER -> "skipped"

\* C5: during run_all_tasks a state snapshot is written before and after
\* every task the loop handles, the tasks declined at the confirmation prompt
\* included: while a task is executed the state file names it as the current
\* task, and once a task has been handled the last persisted state lists its
\* id in exactly the list that matches the status of its result.
C5_SnapshotAroundEveryTask ==
    ReachedLoop =>
        /\ (pc = "exec" /\ ~retrying) =>
              /\ file = <<to_dict(St)>>
              /\ file[1].current_task_id = Task.id
        /\ (pc \in {"loop", "finish"} /\ idx >= 1) =>
              /\ file = <<to_dict(St)>>
              /\ ListsHolding(result.task_results[idx].task_id) =
                     {ListOf(result.task_results[idx].status)}

\* C6: when run_all_tasks returns after its task loop ended (no exception,
\* no abort), the state file is deleted if failed_tasks = 0 and
\* executed_tasks > 0, and otherwise kept with the interruption_reason
\* "Execution stopped due to failures".
C6_StateFileAtTheEnd ==
    LoopEnded =>
        IF result.failed_tasks = 0 /\ result.executed_tasks > 0
        THEN file = <<>>
        ELSE /\ file = <<to_dict(St)>>
             /\ file[1].interruption_reason = "Execution stopped due to failures"

\* a run with continue_on_error ends with a failed and a successful task
C6_Witness ==
    /\ LoopEnded
    /\ result.failed_tasks = 1
    /\ result.successful_tasks = 1
    /\ file # <<>>
    /\ file[1].interruption_reason = "Execution stopped due to failures"
    /\ file[1].completed_task_ids # <<>>

\* what the interruption handler leaves behind
InterruptionRecorded ==
    /\ pc = "raised"
    /\ ret = "KeyboardInterrupt"
    /\ inflight = {}
    /\ state # <<>>
    /\ St.interruption_reason \notin {None, ""}
    /\ file = <<to_dict(St)>>

OneResultPerTask ==
    /\ Len(result.task_results) <= idx + 1
    /\ Len(result.task_results) >= idx
    /\ \A i \in DOMAIN result.task_results :
          /\ i <= Len(selected)
          /\ result.task_results[i].task_id = selected[i].id

\* a step of the INTERACTIVE failure handling
FailureHandlingStep ==
    /\ (pc = "failprompt" /\ pc' = "exec") =>          \* retry
          /\ idx' = idx /\ result' = result /\ started' = started
          /\ retrying'
          /\ pending'.task_id = selected[idx + 1].id
          /\ inflight' = {idx + 1}
    /\ (pc = "record" /\ retrying /\ pc' = "update") =>  \* the retry's result
          /\ Len(result'.task_results) = Len(result.task_results)
          /\ result'.task_results[idx + 1] = pending
          /\ \A i \in 1..idx : result'.task_results[i] = result.task_results[i]
          /\ result'.executed_tasks = result.executed_tasks
    /\ (pc = "update" /\ retrying /\ pending.status = "FAILED" /\ pc' # "raised") =>
          pc' = "failprompt" /\ idx' = idx             \* prompt again
    /\ (pc = "failprompt" /\ pc' \in {"loop", "finish"}) =>  \* skip
          /\ idx' = idx + 1 /\ result' = result /\ started' = started
          /\ pc' = "finish" <=> idx + 1 = Len(selected)
    /\ (pc = "failprompt" /\ pc' = "returned") =>      \* abort
          /\ ret' = "result" /\ result' = result /\ started' = started
          /\ inflight' = {}

\* C8: in INTERACTIVE mode after a task fails, retry re-executes the same
\* task and replaces the last recorded result, prompting again while it
\* still fails; skip goes on to the next task; abort returns the partial
\* result without starting another task.  The result never holds more than
\* one Task Result per handled task.
C8_RetrySkipAbort ==
    [][(Interactive' /\ ReachedLoop' /\ entry' = entry) =>
          /\ OneResultPerTask'
          /\ FailureHandlingStep]_vars

\* a retried task has succeeded: its result replaced the failed one
C8_Witness ==
    /\ Interactive
    /\ pc = "update"
    /\ retrying
    /\ idx = 1
    /\ Len(result.task_results) = 2
    /\ result.task_results[2].status = "SUCCESS"
    /\ result.failed_tasks = 0
    /\ file[1].failed_task_ids # <<>>

\* the parsed tasks a saved state leaves to do
Remaining == LET todo(t) == t.id \notin entry.done IN SelectSeq(entry.parsed, todo)

\* C9: resume_from_saved_state runs exactly the currently parsed tasks whose
\* ids are neither in completed_task_ids nor in skipped_task_ids of the saved
\* state; when none remains it starts no task, deletes the state file and
\* returns the "all already completed" result.
C9_ResumeFromSavedState ==
    entry.op = "resume_from_saved_state" =>
        IF Remaining = <<>>
        THEN /\ pc = "returned" /\ ret = "result"
             /\ started = <<>>
             /\ file = <<>>
             /\ result.summary_message = "All tasks were already completed"
             /\ result.task_results = <<>>
        ELSE /\ ReachedLoop
             /\ Len(selected) = Len(Remaining)
             /\ Range(selected) = Range(Remaining)
             /\ Range(started) \subseteq DOMAIN selected
             /\ result.total_tasks = Len(Remaining)
             /\ pc = "returned" /\ Automatic /\ options.continue_on_error =>
                    started = OneTo(Len(Remaining))

\* a run resumed from the state file of a run that stopped at a failure has
\* finished: the completed task was left out, the failed one was run again
C9_Witness ==
    /\ entry.op = "resume_from_saved_state"
    /\ entry.done # {}
    /\ Len(entry.parsed) = 3
    /\ Len(selected) = 2
    /\ LoopEnded
    /\ started = <<1, 2>>

\* C10: resume_from_task raises an error without executing a task or writing
\* a file when the id is not among the parsed tasks; otherwise it runs
\* exactly the tasks at or after the position of the id in the parsed task
\* list, and no task located before it.
C10_ResumeFromTask ==
    entry.op = "resume_from_task" =>
        IF entry.task_id \notin Range(Ids(entry.parsed))
        THEN /\ pc = "raised" /\ ret = "ValueError"
             /\ started = <<>>
             /\ file = <<>>
             /\ parse_tasks_from_markdown(doc) = entry.parsed
        ELSE /\ ReachedLoop
             /\ Range(selected) =
                    {entry.parsed[i] :
                        i \in FirstIndex(entry.parsed, entry.task_id)..Len(entry.parsed)}

\* C11: is_resumable holds exactly when completed_task_ids is shorter than
\* total_tasks, total_tasks > 0 and (current_task_id is set or a task is
\* completed); check_for_resumable_execution returns the persisted state if
\* and only if the state file can be loaded and the predicate holds of it,
\* and returns nothing otherwise.
C11_ResumableExecution ==
    /\ is_resumable(St) <=>
          /\ Len(St.completed_task_ids) < St.total_tasks
          /\ St.total_tasks > 0
          /\ (St.current_task_id # NoId \/ St.completed_task_ids # <<>>)
    /\ pc = "checked" =>
          LET loaded == _load_execution_state(file)
          IN IF /\ loaded # <<>>
                /\ Len(loaded[1].completed_task_ids) < loaded[1].total_tasks
                /\ loaded[1].total_tasks > 0
                /\ (loaded[1].current_task_id # NoId
                       \/ loaded[1].completed_task_ids # <<>>)
             THEN state = <<St, loaded[1]>>
             ELSE state = <<St>>

\* a state with one of two tasks completed and no current task was returned
C11_Witness ==
    /\ pc = "checked"
    /\ Len(state) = 2
    /\ state[2] = St
    /\ St.current_task_id = NoId
    /\ Len(St.completed_task_ids) = 1
    /\ St.total_tasks = 2

\* C12: from_dict(s.to_dict()) reproduces every field of the Execution State
\* s: spec name, both timestamps, the three id lists in order,
\* current_task_id, total_tasks, interruption_reason and the five fields of
\* the nested options.
C12_RoundTrip ==
    /\ from_dict(to_dict(St)) = St
    /\ (pc = "loaded" /\ file = <<to_dict(St)>>) =>
          /\ Len(state) = 2
          /\ \A field \in DOMAIN St : state[2][field] = St[field]
          /\ \A field \in DOMAIN St.options :
                state[2].options[field] = St.options[field]

\* a state with non-default options and non-empty lists was saved and loaded
C12_Witness ==
    /\ pc = "loaded"
    /\ file = <<to_dict(St)>>
    /\ Len(state) = 2
    /\ state[2].options.execution_mode = "INTERACTIVE"
    /\ state[2].options.resume_from_task = <<1>>
    /\ ~state[2].options.show_detailed_progress
    /\ state[2].completed_task_ids = <<<<2>>, <<1>>>>
    /\ state[2].skipped_task_ids # <<>>
    /\ state[2].current_task_id = <<2>>
    /\ state[2].start_time = 0

\* the dotted id as a tuple of numbers, right-padded with zeros to three
PaddedKey(id) == [k \in 1..(IF Len(id) > 3 THEN Len(id) ELSE 3) |->
                    IF k <= Len(id) THEN id[k] ELSE 0]

\* no task of the list comes before a task that the hierarchical order puts
\* ahead of it; a non-numeric id is behind every numeric one
InHierarchicalOrder(tasks) ==
    \A i, j \in DOMAIN tasks :
        i < j =>
            /\ Numeric(tasks[j].id) => Numeric(tasks[i].id)
            /\ Numeric(tasks[i].id) /\ Numeric(tasks[j].id) =>
                   ~TupleLess(PaddedKey(tasks[j].id), PaddedKey(tasks[i].id))

\* the two lists hold the same tasks, each once
SameTasks(a, b) ==
    /\ Len(a) = Len(b)
    /\ Range(a) = Range(b)

Reverse(s) == [i \in DOMAIN s |-> s[Len(s) + 1 - i]]

\* the selection names every task
SelectsAll(selection) ==
    selection.segs = <<>> /\ selection.word \in {"all", "ALL", "All", "*"}

\* the selection expands and every id of the expansion is the id of a task
ValidSelection(tasks, selection) ==
    /\ ~SelectsAll(selection)
    /\ _parse_task_selection(selection).ok
    /\ _parse_task_selection(selection).value # <<>>
    /\ Range(_parse_task_selection(selection).value) \subseteq Range(Ids(tasks))

\* C13: _filter_tasks with 'all' or '*' in any letter case returns every parsed
\* task; with any other valid selection it returns exactly the tasks whose ids
\* occur in the expanded selection; the result is in hierarchical order and is
\* the same when the parts of the selection are reordered or repeated
C13_FilterTasks ==
    pc = "filtered" =>
        LET selection == options.task_selection
            tasks == selected
            inSelection(t) == t.id \in Range(_parse_task_selection(selection).value)
        IN /\ SelectsAll(selection) =>
                  /\ result.ok
                  /\ SameTasks(result.value, tasks)
                  /\ InHierarchicalOrder(result.value)
           /\ ValidSelection(tasks, selection) =>
                  /\ result.ok
                  /\ SameTasks(result.value, SelectSeq(tasks, inSelection))
                  /\ InHierarchicalOrder(result.value)
                  /\ _filter_tasks(tasks, Selection(selection.word,
                                                    Reverse(selection.segs))) = result
                  /\ _filter_tasks(tasks, Selection(selection.word,
                                                    selection.segs \o selection.segs)) = result

\* "2,1,2" over a document whose unchecked lines are 2, 1.1, 1: the tasks 1
\* and 2 come back, 1 first
C13_Witness ==
    /\ pc = "filtered"
    /\ options.task_selection.segs = <<Part(<<2>>, NoId, 0), Part(<<1>>, <<2>>, 1)>>
    /\ Ids(selected) = <<<<2>>, <<1, 1>>, <<1>>>>
    /\ result.ok
    /\ Ids(result.value) = <<<<1>>, <<2>>>>

\* the ids of the expanded selection that are the id of no task
NotFound(tasks, selection) ==
    {id \in Range(_parse_task_selection(selection).value) : id \notin Range(Ids(tasks))}

\* the selection expands and names an id that no parsed task carries
NamesUnknownId(tasks, selection) ==
    /\ ~SelectsAll(selection)
    /\ _parse_task_selection(selection).ok
    /\ NotFound(tasks, selection) # {}

\* C14: when an id of the expanded selection is the id of no parsed task,
\* _filter_tasks raises one error that lists the invalid ids and all available
\* ids, and the run_all_tasks call that made it raises ValueError without
\* starting a task and without writing the state file or the tasks document
C14_UnknownIdFailsTheRun ==
    [][ ( /\ runs' = runs + 1
          /\ entry'.op = "run_all_tasks"
          /\ entry'.parsed # <<>>
          /\ NamesUnknownId(entry'.parsed, options'.task_selection) )
        => LET filtered == _filter_tasks(entry'.parsed, options'.task_selection)
           IN /\ ~filtered.ok
              /\ filtered.value = <<>>
              /\ filtered.error.kind = "Task IDs not found"
              /\ Range(filtered.error.invalid)
                     = NotFound(entry'.parsed, options'.task_selection)
              /\ filtered.error.available = Range(Ids(entry'.parsed))
              /\ pc' = "raised"
              /\ ret' = "ValueError"
              /\ started' = <<>>
              /\ selected' = <<>>
              /\ UNCHANGED <<doc, file, state, result>> ]_vars

\* "2,1.1" on a document with the tasks 1 and 2: the call has raised, nothing
\* was started, no state file exists
C14_Witness ==
    /\ pc = "raised"
    /\ ret = "ValueError"
    /\ entry.op = "run_all_tasks"
    /\ Ids(entry.parsed) = <<<<1>>, <<2>>>>
    /\ options.task_selection = Join(<<<<2>>, <<1, 1>>>>)
    /\ _filter_tasks(entry.parsed, options.task_selection).error.invalid = <<<<1, 1>>>>
    /\ started = <<>>
    /\ file = <<>>
    /\ parse_tasks_from_markdown(doc) = entry.parsed

\* the part is written with a dash
IsRange(part) == part.dashes >= 1

\* a-b of whole numbers with a <= b, or parent.s-parent.e with s <= e
WellFormedRange(part) ==
    /\ part.dashes = 1
    /\ part.start # NoId /\ part.end # NoId
    /\ Numeric(part.start) /\ Numeric(part.end)
    /\ Len(part.start) = Len(part.end)
    /\ SubSeq(part.start, 1, Len(part.start) - 1) = SubSeq(part.end, 1, Len(part.end) - 1)
    /\ part.start[Len(part.start)] <= part.end[Len(part.end)]

\* a, a+1, ..., b  or  parent.s, parent.(s+1), ..., parent.e
RangeIds(part) ==
    LET parent == SubSeq(part.start, 1, Len(part.start) - 1)
        s == part.start[Len(part.start)]
        e == part.end[Len(part.end)]
    IN [k \in 1..(e - s + 1) |-> Append(parent, s + k - 1)]

\* C15: a range a-b of whole numbers with a <= b expands to a, a+1, ..., b; a
\* hierarchical range whose ends have the same depth and the same parent expands
\* to parent.s, ..., parent.e; a range with reversed bounds, ends of unequal
\* depth or unequal parent, a non-numeric segment, an empty side or more than
\* one dash makes the selection fail and yields no ids
C15_RangeExpansion ==
    pc = "parsed" =>
        LET segs == options.task_selection.segs
            ranges == {k \in DOMAIN segs : IsRange(segs[k])}
            singles == {segs[k].start : k \in {j \in DOMAIN segs :
                                               ~IsRange(segs[j]) /\ segs[j].start # NoId}}
        IN /\ (\E k \in ranges : ~WellFormedRange(segs[k])) =>
                  /\ ~result.ok
                  /\ result.value = <<>>
           /\ (segs # <<>> /\ \A k \in ranges : WellFormedRange(segs[k])) =>
                  /\ result.ok
                  /\ Range(result.value)
                         = singles \cup UNION {Range(RangeIds(segs[k])) : k \in ranges}
                  /\ (Len(segs) = 1 /\ ranges # {}) => result.value = RangeIds(segs[1])

\* "2.1-2.3" has been expanded to 2.1, 2.2, 2.3
C15_Witness ==
    /\ pc = "parsed"
    /\ options.task_selection.segs = <<Part(<<2, 1>>, <<2, 3>>, 1)>>
    /\ result.ok
    /\ result.value = <<<<2, 1>>, <<2, 2>>, <<2, 3>>>>

\* C16: _sort_tasks_hierarchically orders tasks by their dotted id read as a
\* tuple of numbers right-padded with zeros to three components (1 < 2 < 2.1
\* < 3), puts every task with a non-numeric id after all numeric ones, keeps
\* every task, and sorting a sorted list changes nothing
C16_HierarchicalSort ==
    /\ pc \in {"sorted", "sorted twice"} =>
           /\ SameTasks(result.value, selected)
           /\ InHierarchicalOrder(result.value)
    /\ pc = "sorted twice" => result.value = selected

\* 3, 1, 2.1, 2 has been sorted to 1, 2, 2.1, 3
C16_Witness ==
    /\ pc = "sorted"
    /\ Ids(selected) = <<<<3>>, <<1>>, <<2, 1>>, <<2>>>>
    /\ Ids(result.value) = <<<<1>>, <<2>>, <<2, 1>>, <<3>>>>

\* x, 1 has been sorted to 1, x, and sorting once more has kept it
C16_WitnessNonNumeric ==
    /\ pc = "sorted twice"
    /\ Ids(selected) = <<<<1>>, <<-1>>>>
    /\ Ids(result.value) = <<<<1>>, <<-1>>>>

\* C17: marking task X complete rewrites only the line whose checkbox is
\* followed by exactly the id X, from unchecked to checked; the lines of other
\* tasks, ids that extend X included, are left unchanged, and at most one
\* line, the first matching one, is rewritten
C17_MarksOnlyTheTask ==
    [][ (pc = "mark" /\ pc' = "record")
        => LET X == pending.task_id
               rewritten == {i \in DOMAIN doc : doc'[i] # doc[i]}
           IN /\ Len(doc') = Len(doc)
              /\ Cardinality(rewritten) <= 1
              /\ \A i \in rewritten :
                     /\ doc[i].id = X
                     /\ ~doc[i].checked
                     /\ doc'[i] = [doc[i] EXCEPT !.checked = TRUE]
                     /\ \A j \in 1..(i - 1) : ~(doc[j].id = X /\ ~doc[j].checked) ]_vars

\* the tasks of a tree in depth-first order: a task, then its subtasks
RECURSIVE DepthFirst(_, _)
DepthFirst(nodes, tasks) ==
    IF tasks = <<>> THEN <<>>
    ELSE <<nodes[Head(tasks)]>> \o DepthFirst(nodes, subtasks(nodes, Head(tasks)))
                                \o DepthFirst(nodes, Tail(tasks))

FirstUnchecked(tasks) ==
    LET open == {k \in DOMAIN tasks : ~tasks[k].completed}
    IN tasks[CHOOSE k \in open : \A other \in open : k <= other].id

\* C18: with a tasks document that carries the approval marker, get_spec reports
\* 'tasks' when no task is checked, 'in-progress' when some but not all tasks,
\* subtasks counted, are checked, then with the first unchecked task in
\* depth-first order as the in-progress id, and 'completed' when all are checked
C18_TasksStatus ==
    (/\ pc = "returned"
     /\ entry.op = "get_spec"
     /\ doc.tasks # <<>>
     /\ doc.tasks[1].marker = "APPROVED")
    => LET lines == doc.tasks[1].lines
           taskLines == {k \in DOMAIN lines : lines[k].kind = "task"}
           checked == {k \in taskLines : lines[k].checked}
           spec == result[1]
           task_list == spec.tasks[1].task_list
       IN /\ spec.tasks[1].total = Cardinality(taskLines)
          /\ spec.tasks[1].completed = Cardinality(checked)
          /\ checked = {} => spec.status = "tasks"
          /\ (checked # {} /\ checked # taskLines) =>
                 /\ spec.status = "in-progress"
                 /\ spec.tasks[1].in_progress
                        = FirstUnchecked(DepthFirst(task_list, subtasks(task_list, 0)))
          /\ (checked # {} /\ checked = taskLines) => spec.status = "completed"

\* task 1 checked, its subtask 2 and the next task 3 unchecked: in-progress at 2
C18_Witness ==
    /\ pc = "returned"
    /\ entry.op = "get_spec"
    /\ doc.tasks = <<Content("APPROVED",
                             <<TaskLine(0, TRUE), TaskLine(2, FALSE), TaskLine(0, FALSE)>>)>>
    /\ result[1].status = "in-progress"
    /\ result[1].tasks[1].task_list[2].parent = 1
    /\ result[1].tasks[1].in_progress = <<2>>

\* C19: get_spec reports a status beyond 'requirements' only if the requirements
\* document exists and holds an approval marker, and a status beyond 'design'
\* only if in addition the design document exists and holds the approval marker
C19_ApprovalGated ==
    (pc = "returned" /\ entry.op = "get_spec")
    => LET status == result[1].status
           requirementsApproved ==
               /\ doc.requirements # <<>>
               /\ doc.requirements[1].marker \in {"APPROVED", "Approved:"}
           designApproved ==
               /\ doc.design # <<>>
               /\ doc.design[1].marker = "APPROVED"
       IN /\ status \in {"design", "tasks", "in-progress", "completed"}
                 => requirementsApproved
          /\ status \in {"tasks", "in-progress", "completed"}
                 => requirementsApproved /\ designApproved

\* C20: check_git_changes emits a Git Change event exactly when the current
\* branch or the current 7-character commit prefix differs from the last-seen
\* value, one event per check at most (commit-changed when the commit differs,
\* branch-changed when only the branch differs), and afterwards the last-seen
\* branch and commit are the current ones
C20_GitChangeEvents ==
    [][ (runs' = runs + 1 /\ entry'.op = "check_git_changes")
        => LET current_branch == doc.branch
               current_commit == ShortCommit(doc.commit)
               branch_differs == current_branch # state._last_branch
               commit_differs == current_commit # state._last_commit
               emitted == SubSeq(result', Len(result) + 1, Len(result'))
           IN /\ SubSeq(result', 1, Len(result)) = result
              /\ Len(emitted) <= 1
              /\ (emitted # <<>>) <=> (branch_differs \/ commit_differs)
              /\ emitted # <<>> =>
                     emitted[1] = GitChangeEvent(IF commit_differs THEN "commit-changed"
                                                 ELSE "branch-changed",
                                                 current_branch, current_commit)
              /\ state' = GitState(current_branch, current_commit) ]_vars

\* the observers of a source that are running
Running(source) == {k \in DOMAIN result : result[k].source = source /\ result[k].running}

\* C21: SpecWatcher.start and stop are idempotent: however often start was
\* called there is at most one running watch per source; stop raises no error,
\* also when repeated or called first; after stop no watch of this watcher runs
C21_StartStopIdempotent ==
    /\ \A source \in Sources : Cardinality(Running(source)) <= 1
    /\ entry.op = "stop" => /\ ret = "none"
                            /\ \A source \in Sources : Running(source) = {}

\* the files run_setup writes: fourteen commands, six templates, the config
GeneratedPaths ==
    {CommandFile(n) : n \in CommandNames} \cup {TemplateFile(n) : n \in TemplateNames}
    \cup {ConfigFile}

C23_ErrorsBecomeFailedResults ==
    (pc = "returned" /\ entry.op = "_execute_single_task")
    => /\ ret = "result"
       /\ pending.status \in {"SUCCESS", "FAILED"}
       /\ options.agent.raises =>
              pending.status = "FAILED" /\ pending.error_message = options.agent.message
       /\ (options.agent = Returns(TRUE) /\ options.validation.raises) =>
              /\ pending.status = "FAILED"
              /\ pending.error_message = options.validation.message
       /\ (/\ options.agent = Returns(TRUE)
           /\ options.validation = Returns(TRUE)
           /\ options.mark.raises) =>
              pending.status = "FAILED" /\ pending.error_message = options.mark.message

\* C24: after _execute_single_task has returned SUCCESS for a task that
\* parse_tasks_from_markdown took from the tasks document, the document shows
\* that task's line as checked and a later parse no longer returns the task,
\* for every line the parser recognises, indented subtask lines included
C24_SuccessChecksTheLine ==
    (pc = "returned" /\ entry.op = "_execute_single_task" /\ pending.status = "SUCCESS")
    => LET task == entry.parsed[1]
       IN /\ doc[task.line].checked
          /\ task \notin Range(parse_tasks_from_markdown(doc))

\* C25 (TaskExecutor._execute_with_sdk): a session fails as soon as an
\* error-type message is received and fails when no message is received;
\* otherwise it succeeds when the verification of the snapshots taken before
\* and after finds a change, fails when it finds none but a Write, Edit,
\* MultiEdit or NotebookEdit tool use was seen (the manual fallback reports
\* failure), and succeeds when it finds none and no such tool use was seen.
ErrorMessageSeen == \E i \in 1..Len(doc.messages) : doc.messages[i].type = "error"

FileToolUseSeen ==
    \E i \in 1..Len(doc.messages) :
        /\ doc.messages[i].type = "tool_use"
        /\ doc.messages[i].tool_name \in {"Write", "Edit", "MultiEdit", "NotebookEdit"}

\* the verification of the snapshots found a change: a file that is new, or
\* a file with another modification time or size
SnapshotsShowChange ==
    \E f \in DOMAIN state.files_after :
        /\ state.files_after[f] # 0
        /\ state.files_after[f] # state.files_before[f]

AgentRunEndedSuccessfully ==
    /\ Len(doc.messages) > 0 /\ ~ErrorMessageSeen /\ ~doc.raises
    /\ options.executable /\ options.success

C26_SameGate ==
    (pc = "_execute_with_subprocess" /\ AgentRunEndedSuccessfully /\ ~FileToolUseSeen) =>
        result = _execute_with_sdk(doc, state.files_before, state.files_after)

\* C27 (TaskExecutor._monitor_claude_process): the monitor always returns in
\* the end, whatever the process does; when the ceiling of 300 seconds was
\* exceeded the result is a failure; and when the loop ended otherwise than by
\* the natural exit of the process, _terminate_process has run before the
\* return: it sent the terminate signal, or found the process ended.
LoopEndings ==
    {"natural exit", "completion pattern", "error pattern", "inactivity",
     "execution timeout", "exception"}

TerminationAttempted ==
    \/ selected # <<>> /\ selected[1].op = "terminate"
    \/ selected = <<>> /\ doc.exited

C27_MonitorReturns ==
    <>(/\ pc = "returned"
       /\ pending \in LoopEndings
       /\ pending = "execution timeout" => ~result.success
       /\ pending # "natural exit" => TerminationAttempted)

C27_Witness ==
    /\ pc = "returned"
    /\ pending = "execution timeout"
    /\ ~result.success
    /\ ~doc.exited
    /\ Len(selected) = 4

\* C28 (TaskExecutor._monitor_claude_process): a process that still runs and
\* has written nothing for more than 30 seconds is terminated and the monitor
\* reports success.
C28_InactivityIsCompletion ==
    (pc = "returned" /\ pending = "inactivity") =>
        /\ TerminationAttempted
        /\ result.success

\* C29 (TaskExecutor._monitor_claude_process): a chunk of output that holds a
\* completion phrase, in any case of the letters, ends the monitoring at once
\* with a termination and success; a chunk that holds an error phrase ends it
\* at once with a termination and failure, whatever else the chunk holds.
HoldsPhrase(held) == held # "no" /\ held # "start" /\ held # "end"

C29_PatternsEndTheLoop ==
    (pc = "returned" /\ options # Chunk("no", "no")) =>
        /\ TerminationAttempted
        /\ HoldsPhrase(options.error) => ~result.success
        /\ (HoldsPhrase(options.completion) /\ ~HoldsPhrase(options.error)) => result.success

\* C30 (TaskExecutor._terminate_process): the terminate signal comes first
\* and is followed by a wait of at most 5 seconds; the kill signal is sent
\* only after that wait has timed out and is followed by a wait of at most 2
\* seconds; no signal is sent to a process that has ended.
Terminations ==
    {<<>>,
     <<Signal("terminate")>>,
     <<Signal("terminate"), Wait(5, "exited")>>,
     <<Signal("terminate"), Wait(5, "TimeoutError"), Signal("kill")>>,
     <<Signal("terminate"), Wait(5, "TimeoutError"), Signal("kill"), Wait(2, "exited")>>,
     <<Signal("terminate"), Wait(5, "TimeoutError"), Signal("kill"),
       Wait(2, "TimeoutError")>>}

SignalSent ==
    \E i \in (Len(selected) + 1)..Len(selected') : selected'[i].outcome = "sent"

C30_GracefulThenForced ==
    [][/\ selected' \in Terminations
       /\ SignalSent => ~doc.exited
       /\ pc' = "returned" => selected' \notin {<<Signal("terminate")>>,
                                                <<Signal("terminate"),
                                                  Wait(5, "TimeoutError"),
                                                  Signal("kill")>>}]_vars

C30_Witness ==
    /\ pc = "returned"
    /\ selected = <<Signal("terminate"), Wait(5, "TimeoutError"), Signal("kill"),
                    Wait(2, "exited")>>

\* C33, as the spec states it: there is a task list in which the hierarchical
\* sort puts a four-level id on the wrong side of another id, the ids being
\* compared as full tuples of numbers. The lists looked at are those of up to
\* two tasks and the list that was last given to the sort.
FourLevels(id) == Len(id) = 4

OutOfFullOrder(tasks) ==
    \E i, j \in DOMAIN tasks :
        /\ i < j
        /\ FourLevels(tasks[i].id) \/ FourLevels(tasks[j].id)
        /\ Numeric(tasks[i].id) /\ Numeric(tasks[j].id)
        /\ TupleLess(tasks[j].id, tasks[i].id)

C33_FourLevelIdsMisordered ==
    \E tasks \in TaskListsUpTo(2) \cup {selected} :
        OutOfFullOrder(_sort_tasks_hierarchically(tasks))

\* C33, amended: the key of an id of three or more levels is the whole id, so
\* the hierarchical sort leaves every four-level id on the right side of every
\* other numeric id, the ids being compared as full tuples of numbers.
C33_FourLevelIdsInOrder ==
    pc \in {"sorted", "sorted twice"} => ~OutOfFullOrder(result.value)

\* 2.1.0.1, 2.1, 2.0.0.0, 2 has been sorted to 2, 2.0.0.0, 2.1, 2.1.0.1
C33_Witness ==
    /\ pc = "sorted"
    /\ Ids(selected) = <<<<2, 1, 0, 1>>, <<2, 1>>, <<2, 0, 0, 0>>, <<2>>>>
    /\ Ids(result.value) = <<<<2>>, <<2, 0, 0, 0>>, <<2, 1>>, <<2, 1, 0, 1>>>>

\* C39 (TaskExecutor._verify_file_changes): a change is reported exactly when
\* the snapshot taken before and the snapshot taken after differ as maps from
\* path to (modification time, size): a path added, a path removed, or a path
\* with another modification time or size.
C39_ChangeIffSnapshotsDiffer ==
    pc \in {"_execute_with_sdk", "_execute_with_subprocess"} =>
        (_verify_file_changes(state.files_before, state.files_after)
            <=> state.files_before # state.files_after)

\* --------------------------------- run_all_tasks on a disk that may fail
\* run_all_tasks in AUTOMATIC mode, each write of .auto_run_state.json ending
\* in one of three ways: written, OSError raised by open() (the file is left
\* as it was), OSError raised by write() (open(..., 'w') has emptied the
\* file).  `entry` holds how the write made by the last step ended ("none"
\* when the step wrote nothing); the other variables are those of Spec.
WriteOutcomes == {"written", "open fails", "write fails"}

\* an emptied file: json.loads raises JSONDecodeError, as for a dict that
\* from_dict cannot read
EmptiedFile == <<EmptyDict>>

\* _save_execution_state: the file after the call.  Its try/except prints
\* every Exception as a warning and the call returns None, as after a write
\* that went well
_save_execution_state_on(f, st, write) ==
    CASE write = "written" -> _save_execution_state(st)
      [] write = "open fails" -> f
      [] OTHER -> EmptiedFile

InitDisk ==
    /\ doc \in SeqsUpTo(LineKinds, 2)
    /\ file = <<>>
    /\ state = <<>>
    /\ pc = "idle"
    /\ options = NoOptions
    /\ selected = <<>>
    /\ idx = 0
    /\ result = AutoRunResult(0)
    /\ pending = TaskResult(NoId, "PENDING")
    /\ retrying = FALSE
    /\ ret = "none"
    /\ entry = "none"
    /\ started = <<>>
    /\ inflight = {}
    /\ ctrlC = "no"
    /\ retries = 0
    /\ runs = 0

\* a step that saves st and goes on
SaveOnDisk(st, write, goes_on) ==
    /\ state' = <<st>>
    /\ file' = _save_execution_state_on(file, st, write)
    /\ entry' = write
    /\ goes_on

\* run_all_tasks up to the task loop
DiskRunAllTasks(coe, write) ==
    LET opts == AutoRunOptions("AUTOMATIC", Selection("all", <<>>), coe, TRUE, NoId)
        parsed_tasks == parse_tasks_from_markdown(doc)
        filtered == _filter_tasks(parsed_tasks, opts.task_selection)
    IN /\ pc = "idle"
       /\ parsed_tasks # <<>>
       /\ filtered.ok
       /\ options' = opts
       /\ selected' = filtered.value
       /\ result' = AutoRunResult(Len(filtered.value))
       /\ SaveOnDisk(ExecutionState(opts, Len(filtered.value)), write,
                     pc' = "loop" /\ UNCHANGED <<idx, ret>>)
       /\ UNCHANGED <<doc, pending, retrying, started, inflight, ctrlC, retries, runs>>

\* lines 367-368: record the current task and save
DiskBeginTask(write) ==
    /\ pc = "loop"
    /\ pending' = TaskResult(Task.id, "RUNNING")
    /\ started' = Append(started, idx + 1)
    /\ SaveOnDisk([St EXCEPT !.current_task_id = Task.id], write,
                  pc' = "exec" /\ UNCHANGED <<idx, ret>>)
    /\ UNCHANGED <<doc, options, selected, result, retrying, inflight, ctrlC,
                   retries, runs>>

\* _execute_single_task and result.add_task_result
DiskExecuteTask(success) ==
    /\ pc = "exec"
    /\ pending' = [pending EXCEPT !.status = IF success THEN "SUCCESS" ELSE "FAILED"]
    /\ doc' = IF success THEN mark_task_complete_content(doc, pending.task_id) ELSE doc
    /\ result' = add_task_result(result, pending')
    /\ pc' = "update"
    /\ entry' = "none"
    /\ UNCHANGED <<file, state, options, selected, idx, retrying, ret, started,
                   inflight, ctrlC, retries, runs>>

\* _update_execution_state, then the branch on the status
DiskUpdateState(write) ==
    /\ pc = "update"
    /\ SaveOnDisk(_update_execution_state(St, pending), write,
                  /\ AfterTask(pending.status = "FAILED" /\ StopsOnFailure(options))
                  /\ UNCHANGED ret)
    /\ UNCHANGED <<doc, options, selected, result, pending, retrying, started,
                   inflight, ctrlC, retries, runs>>

\* lines 428-436: finalize, clear or mark the state file, return
DiskFinishRun(write) ==
    /\ pc = "finish"
    /\ result' = finalize(result)
    /\ IF is_successful(result')
       THEN /\ file' = _clear_execution_state(file)
            /\ entry' = "none"
            /\ pc' = "returned"
            /\ ret' = "result"
            /\ UNCHANGED <<state, idx>>
       ELSE SaveOnDisk([St EXCEPT !.interruption_reason =
                                    "Execution stopped due to failures"], write,
                       pc' = "returned" /\ ret' = "result" /\ UNCHANGED idx)
    /\ UNCHANGED <<doc, options, selected, pending, retrying, started, inflight,
                   ctrlC, retries, runs>>

NextDisk ==
    \/ \E coe \in BOOLEAN, write \in WriteOutcomes : DiskRunAllTasks(coe, write)
    \/ \E write \in WriteOutcomes : DiskBeginTask(write)
    \/ \E success \in BOOLEAN : DiskExecuteTask(success)
    \/ \E write \in WriteOutcomes : DiskUpdateState(write)
    \/ \E write \in WriteOutcomes : DiskFinishRun(write)

SpecDisk == InitDisk /\ [][NextDisk]_vars

\* C32 (TaskAutoRunner._save_execution_state, run_all_tasks): a step of a run
\* in progress whose write of the state file failed ends run_all_tasks with the
\* error; the run does not go on to its next step.
C32_WriteFailurePropagates ==
    entry \in {"open fails", "write fails"} => pc = "raised" /\ ret = "OSError"

\* C35 (TaskAutoRunner._update_execution_state, run_all_tasks): in every
\* execution state written to the state file the three id lists taken
\* together hold no id twice (they are pairwise disjoint and none repeats an
\* id) and hold at most total_tasks ids; once an interactive retry of a failed
\* task has succeeded and its result is saved, the id of the task is among the
\* completed ids and not among the failed ones.
ListedIds(d) == d.completed_task_ids \o d.failed_task_ids \o d.skipped_task_ids

NoIdTwice(ids) == \A i, j \in DOMAIN ids : ids[i] = ids[j] => i = j

RetrySucceededAndSaved ==
    pc \in {"loop", "finish", "returned"} /\ retrying /\ pending.status = "SUCCESS"

C35_IdListsDisjoint ==
    file # <<>> =>
        /\ NoIdTwice(ListedIds(file[1]))
        /\ Len(ListedIds(file[1])) <= file[1].total_tasks
        /\ RetrySucceededAndSaved =>
              /\ pending.task_id \in Range(file[1].completed_task_ids)
              /\ pending.task_id \notin Range(file[1].failed_task_ids)

\* the second task of three has failed, was retried with success and saved,
\* the first one being completed
C35_Witness ==
    /\ pc = "loop"
    /\ retrying
    /\ pending.status = "SUCCESS"
    /\ file # <<>>
    /\ Len(file[1].completed_task_ids) = 2
    /\ file[1].failed_task_ids = <<>>
    /\ pending.task_id = file[1].completed_task_ids[2]

\* C36 (TaskAutoRunner.run_all_tasks, _update_execution_state,
\* ExecutionState.next_task_id): while a task is being executed, for the first
\* time or as an interactive retry, the state file holds the id of that task as
\* current_task_id; while the loop is between two executions the state file
\* holds no current_task_id; after Ctrl+C during an execution the state file
\* gives the interrupted task as the task to resume from.
InterruptedWhileExecuting ==
    pc = "raised" /\ ret = "KeyboardInterrupt" /\ pending.status = "RUNNING"

C36_CurrentTaskPersisted ==
    /\ pc \in {"exec", "mark"} =>
          file # <<>> /\ file[1].current_task_id = pending.task_id
    /\ pc \in {"loop", "failprompt", "finish"} =>
          file # <<>> /\ file[1].current_task_id = NoId
    /\ InterruptedWhileExecuting =>
          file # <<>> /\ next_task_id(from_dict(file[1])) = pending.task_id

\* C38 (TaskAutoRunner.run_all_tasks, resume_from_task,
\* resume_from_saved_state, AutoRunResult): in every AutoRunResult a call
\* returns, executed_tasks is at most total_tasks and task_results holds
\* executed_tasks results; the result returned when every task was already
\* completed and the results built with retries are among them.
C38_ReturnedResultCounts ==
    pc = "returned" /\ ret = "result" =>
        /\ result.executed_tasks <= result.total_tasks
        /\ Len(result.task_results) = result.executed_tasks

\* C37 (TaskAutoRunner.run_all_tasks, check_for_resumable_execution,
\* ExecutionState.is_resumable): when a call in AUTOMATIC mode has left the
\* task loop normally and returns a result with failed tasks, the state file
\* it leaves is returned by check_for_resumable_execution if and only if a
\* task of that run was executed successfully; after a run that ended at the
\* failure of its first task the state file is not returned.
EndedBecauseOfFailures ==
    /\ pc = "returned"
    /\ ret = "result"
    /\ options.execution_mode = "AUTOMATIC"
    /\ result.failed_tasks > 0

C37_ResumableIffSomeSuccess ==
    EndedBecauseOfFailures =>
        (check_for_resumable_execution(file) # <<>> <=> result.successful_tasks > 0)

\* ------------------------------ EnhancedSpecFileHandler and the event loop
\* The file system events of the specs directory, reported one after the
\* other to EnhancedSpecFileHandler on the thread of the asyncio event loop.
\* `doc` holds the events reported so far, `selected` the tasks that are ready
\* to run, in the order the loop will run them (asyncio runs ready tasks first
\* in, first out), `started` the tasks asleep in asyncio.sleep(0.1), in the
\* order their timers end, and `result` the Spec Change events the listener
\* was called with, each with the number of the reported event it is for.
MaxEvents == 3

\* a reported event: on_created / on_modified / on_deleted, of a file or a
\* directory; `watched` says that the path is one the handler acts on (a
\* requirements.md, design.md or tasks.md of a spec; a top-level directory)
FsEvent(kind, is_directory, watched) ==
    [kind |-> kind, is_directory |-> is_directory, watched |-> watched]

FsEvents ==
    {FsEvent(kind, is_directory, watched) :
        kind \in {"created", "modified", "deleted"},
        is_directory \in BOOLEAN, watched \in BOOLEAN}

ChangeType(kind) ==
    CASE kind = "created" -> "added"
      [] kind = "modified" -> "changed"
      [] OTHER -> "removed"

LoopTask(coroutine, n) == [coroutine |-> coroutine, n |-> n]

SpecChange(n, change_type) == [n |-> n, type |-> change_type]

\* SpecWatcher.emit with one listener: asyncio.create_task(callback(data))
emit(queue, n) == Append(queue, LoopTask("callback", n))

InitEvents ==
    /\ doc = <<>>
    /\ file = <<>>
    /\ state = <<>>
    /\ pc = "idle"
    /\ options = NoOptions
    /\ selected = <<>>
    /\ idx = 0
    /\ result = <<>>
    /\ pending = TaskResult(NoId, "PENDING")
    /\ retrying = FALSE
    /\ ret = "none"
    /\ entry = Entry("none", <<>>, NoId, {})
    /\ started = <<>>
    /\ inflight = {}
    /\ ctrlC = "no"
    /\ retries = 0
    /\ runs = 0

EventsUnchanged ==
    UNCHANGED <<file, state, pc, options, idx, pending, retrying, ret, entry,
                inflight, ctrlC, retries, runs>>

\* on_created, on_modified, on_deleted
ReportEvent(event) ==
    LET n == Len(doc) + 1
    IN /\ Len(doc) < MaxEvents
       /\ doc' = Append(doc, event)
       /\ selected' =
            IF ~event.is_directory
            THEN Append(selected, LoopTask("handle_file_change", n))
            ELSE IF event.kind = "created" /\ event.watched
            THEN Append(selected, LoopTask("check_new_spec_directory", n))
            ELSE IF event.kind = "deleted" /\ event.watched
            THEN emit(selected, n)
            ELSE selected
       /\ UNCHANGED <<result, started>>
       /\ EventsUnchanged

\* handle_file_change up to asyncio.sleep(0.1), or to its end
HandleFileChange(n) ==
    /\ IF ~doc[n].watched THEN
           /\ selected' = Tail(selected)
           /\ UNCHANGED started
       ELSE IF ChangeType(doc[n].kind) = "changed" THEN
           /\ selected' = Tail(selected)
           /\ started' = Append(started, n)
       ELSE
           /\ selected' = emit(Tail(selected), n)
           /\ UNCHANGED started
    /\ UNCHANGED result

\* handle_file_change from the end of asyncio.sleep(0.1) on
HandleFileChangeAfterSleep(n) ==
    /\ selected' = emit(Tail(selected), n)
    /\ UNCHANGED <<result, started>>

\* check_new_spec_directory: get_spec returns None for a directory that is
\* gone by now
CheckNewSpecDirectory(n, exists) ==
    /\ selected' = IF exists THEN emit(Tail(selected), n) ELSE Tail(selected)
    /\ UNCHANGED <<result, started>>

\* the listener is called with the Spec Change event
Callback(n) ==
    /\ selected' = Tail(selected)
    /\ result' = Append(result, SpecChange(n, IF doc[n].is_directory /\ doc[n].kind = "created"
                                              THEN "added" ELSE ChangeType(doc[n].kind)))
    /\ UNCHANGED started

\* the event loop runs the first ready task up to its next suspension
RunTask(exists) ==
    /\ selected # <<>>
    /\ LET task == Head(selected)
       IN CASE task.coroutine = "handle_file_change" -> HandleFileChange(task.n)
            [] task.coroutine = "handle_file_change after sleep" ->
                   HandleFileChangeAfterSleep(task.n)
            [] task.coroutine = "check_new_spec_directory" ->
                   CheckNewSpecDirectory(task.n, exists)
            [] OTHER -> Callback(task.n)
    /\ UNCHANGED doc
    /\ EventsUnchanged

\* the 100 ms of the sleep that began first are over: its task is ready again
SleepEnds ==
    /\ started # <<>>
    /\ started' = Tail(started)
    /\ selected' = Append(selected, LoopTask("handle_file_change after sleep", Head(started)))
    /\ UNCHANGED <<doc, result>>
    /\ EventsUnchanged

NextEvents ==
    \/ \E event \in FsEvents : ReportEvent(event)
    \/ \E exists \in BOOLEAN : RunTask(exists)
    \/ SleepEnds

SpecEvents == InitEvents /\ [][NextEvents]_vars

test_commands == <<"--version", "--help", "-v", "-h", "">>

\* how an invocation ends: exit code 0; a non-zero exit code; a non-zero exit
\* code with "command not found" or "no such file" on stderr; no end within
\* the timeout of wait_for; FileNotFoundError / OSError of
\* create_subprocess_exec
InvocationOutcomes == {"exit 0", "exit 1", "exit 1 not found", "TimeoutError", "OSError"}

RECURSIVE InvocationSequences(_)
InvocationSequences(n) ==
    IF n = 0 THEN {<<>>}
    ELSE {Append(s, o) : s \in InvocationSequences(n - 1), o \in InvocationOutcomes}

\* the provider configuration: its 'command' ("absent", "array" for a
\* non-empty list, "empty array", "string") and whether it has a 'path'
ProviderConfig(command, path) == [command |-> command, path |-> path]

ProviderConfigs ==
    {ProviderConfig(command, path) :
        command \in {"absent", "array", "empty array", "string"}, path \in BOOLEAN}

ProviderStatus(status, error_message, response_time) ==
    [status |-> status, error_message |-> error_message, response_time |-> response_time]

CommandResult(success, error) == [success |-> success, error |-> error]

\* the loop over test_commands, from attempt i on
RECURSIVE TryTestCommands(_, _)
TryTestCommands(outcomes, i) ==
    IF i > Len(test_commands)
    THEN CommandResult(FALSE, "Provider command not found or not executable")
    ELSE CASE outcomes[i] = "exit 0" -> CommandResult(TRUE, None)
           [] outcomes[i] = "exit 1" -> CommandResult(FALSE, "Provider returned error code")
           [] OTHER -> TryTestCommands(outcomes, i + 1)

_test_provider_command(outcomes) == TryTestCommands(outcomes, 1)

_test_single_provider(provider_config, outcomes) ==
    IF provider_config.command = "absent" /\ ~provider_config.path
    THEN ProviderStatus("NOT_CONFIGURED",
                        "Provider missing required 'command' or 'path' configuration", None)
    ELSE IF provider_config.command = "absent"
    THEN ProviderStatus("INACTIVE", "Path-based providers not currently testable", "elapsed")
    ELSE IF provider_config.command = "array"
    THEN LET tested == _test_provider_command(outcomes)
         IN IF tested.success THEN ProviderStatus("ACTIVE", None, "elapsed")
            ELSE ProviderStatus("ERROR", tested.error, "elapsed")
    ELSE ProviderStatus("NOT_CONFIGURED", "Provider command must be a non-empty array",
                        "elapsed")

InitProvider ==
    /\ doc = ProviderConfig("absent", FALSE)
    /\ file = <<>>
    /\ state = <<>>
    /\ pc = "idle"
    /\ options = NoOptions
    /\ selected = <<>>
    /\ idx = 0
    /\ result = ProviderStatus("INACTIVE", None, None)
    /\ pending = TaskResult(NoId, "PENDING")
    /\ retrying = FALSE
    /\ ret = "none"
    /\ entry = Entry("none", <<>>, NoId, {})
    /\ started = <<>>
    /\ inflight = {}
    /\ ctrlC = "no"
    /\ retries = 0
    /\ runs = 0

TestSingleProvider(provider_config, outcomes) ==
    /\ doc' = provider_config
    /\ selected' = outcomes
    /\ result' = _test_single_provider(provider_config, outcomes)
    /\ pc' = "tested"
    /\ UNCHANGED <<file, state, options, idx, pending, retrying, ret, entry,
                   started, inflight, ctrlC, retries, runs>>

NextProvider ==
    /\ pc = "idle"
    /\ \E provider_config \in ProviderConfigs,
          outcomes \in InvocationSequences(Len(test_commands)) :
            TestSingleProvider(provider_config, outcomes)

SpecProvider == InitProvider /\ [][NextProvider]_vars

\* C34 (_test_single_provider, _test_provider_command): a provider whose
\* command is a non-empty array and whose invocations all run into the timeout
\* is reported with status TIMEOUT, and every ProviderStatus returned, the
\* NOT_CONFIGURED ones included, carries a response time.
EveryInvocationTimedOut ==
    \A i \in DOMAIN selected : selected[i] = "TimeoutError"

C34_TimeoutIsReported ==
    pc = "tested" =>
        /\ result.response_time # None
        /\ doc.command = "array" /\ EveryInvocationTimedOut => result.status = "TIMEOUT"

\* ------------------------------------------ _validate_mcp_config_structure
\* The parsed MCP configuration is validated.  `doc` holds the configuration
\* data, `result` the MCPConfigStatus returned.
\* a provider entry: whether it is an object and, if so, its 'command'
\* ("absent", "array" for a non-empty list, "empty array", "string"), whether
\* it has a 'path', its 'args' ("absent", "array", "string") and its 'env'
\* ("absent", "object", "string")
ProviderEntry(is_object, command, path, args, env) ==
    [is_object |-> is_object, command |-> command, path |-> path, args |-> args,
     env |-> env]

NotAnObject == ProviderEntry(FALSE, "absent", FALSE, "absent", "absent")

ProviderEntries ==
    {NotAnObject} \cup
    {ProviderEntry(TRUE, command, path, args, env) :
        command \in {"absent", "array", "empty array", "string"},
        path \in BOOLEAN,
        args \in {"absent", "array", "string"},
        env \in {"absent", "object", "string"}}

\* the configuration data: whether it is a JSON object; the section that
\* holds the one provider 'p' as an object keyed by name ("none" when there is
\* no provider); the provider entry; the 'global' section ("absent", "object",
\* "string"); whether 'version', 'logging' and 'timeout' are given
ConfigData(is_object, section, provider, global, settings) ==
    [is_object |-> is_object, section |-> section, provider |-> provider,
     global |-> global, settings |-> settings]

ConfigDataInputs ==
    {ConfigData(is_object, section, provider, global, settings) :
        is_object \in BOOLEAN,
        section \in {"none", "providers", "mcpServers", "servers"},
        provider \in ProviderEntries,
        global \in {"absent", "object", "string"},
        settings \in BOOLEAN}

MCPConfigStatus(status, providers, errors, suggestions) ==
    [status |-> status, providers |-> providers, errors |-> errors,
     suggestions |-> suggestions]

is_valid(config_status) == config_status.status = "VALID"

\* the errors _validate_provider_configurations adds for the provider 'p';
\* only the sections 'providers' and 'mcpServers' are looked at
_validate_provider_configurations(config_data) ==
    IF config_data.section \notin {"providers", "mcpServers"} THEN <<>>
    ELSE IF ~config_data.provider.is_object
    THEN <<"Provider 'p' configuration must be an object">>
    ELSE LET provider_config == config_data.provider
         IN (IF provider_config.command = "absent" /\ ~provider_config.path
             THEN <<"Provider 'p' missing required 'command' or 'path' field">>
             ELSE <<>>)
            \o (IF provider_config.command \in {"empty array", "string"}
                THEN <<"Provider 'p' command must be a non-empty array">>
                ELSE <<>>)
            \o (IF provider_config.args = "string"
                THEN <<"Provider 'p' args must be an array">>
                ELSE <<>>)
            \o (IF provider_config.env = "string"
                THEN <<"Provider 'p' env must be an object">>
                ELSE <<>>)

\* the suggestions and the error _check_common_config_issues adds
_check_common_config_issues(config_data) ==
    [suggestions |-> IF config_data.settings THEN <<>>
                     ELSE <<"version", "logging", "timeout">>,
     errors |-> IF config_data.global = "string"
                THEN <<"Global configuration must be an object">>
                ELSE <<>>]

_validate_mcp_config_structure(config_data) ==
    IF ~config_data.is_object
    THEN MCPConfigStatus("INVALID", {}, <<"Configuration must be a JSON object">>, <<>>)
    ELSE LET providers == IF config_data.section = "none" THEN {} ELSE {"p"}
             common == _check_common_config_issues(config_data)
         IN MCPConfigStatus(
                "VALID",
                providers,
                (IF providers # {} THEN _validate_provider_configurations(config_data)
                 ELSE <<>>) \o common.errors,
                (IF providers # {} THEN <<>> ELSE <<"add providers", "common providers">>)
                    \o common.suggestions)

InitConfig ==
    /\ doc = ConfigData(FALSE, "none", NotAnObject, "absent", FALSE)
    /\ file = <<>>
    /\ state = <<>>
    /\ pc = "idle"
    /\ options = NoOptions
    /\ selected = <<>>
    /\ idx = 0
    /\ result = MCPConfigStatus("VALID", {}, <<>>, <<>>)
    /\ pending = TaskResult(NoId, "PENDING")
    /\ retrying = FALSE
    /\ ret = "none"
    /\ entry = Entry("none", <<>>, NoId, {})
    /\ started = <<>>
    /\ inflight = {}
    /\ ctrlC = "no"
    /\ retries = 0
    /\ runs = 0

ValidateStructure(config_data) ==
    /\ doc' = config_data
    /\ result' = _validate_mcp_config_structure(config_data)
    /\ pc' = "validated"
    /\ UNCHANGED <<file, state, options, selected, idx, pending, retrying, ret, entry,
                   started, inflight, ctrlC, retries, runs>>

NextConfig ==
    /\ pc = "idle"
    /\ \E config_data \in ConfigDataInputs : ValidateStructure(config_data)

SpecConfig == InitConfig /\ [][NextConfig]_vars

\* C40 (_validate_mcp_config_structure, MCPConfigStatus.is_valid): the status
\* returned by the structure validation is VALID only with an empty error
\* list; a provider violation or a 'global' section that is not an object
\* leaves a status that is not VALID.
C40_ValidOnlyWithoutErrors ==
    pc = "validated" => (is_valid(result) => result.errors = <<>>)

=============================================================================
